---- MODULE Spec2Model ----
(***************************************************************************)
(* A model of the interior-design backend (nectorv/AI_interior_design):    *)
(* the Flask routes of backend/api/routes.py, the Gemini client of         *)
(* backend/services/ai_service.py, the furniture searcher and the CLIP     *)
(* client of backend/services/lambda_search_service.py, the application    *)
(* factory of backend/app.py and the helpers of backend/utils and          *)
(* backend/core.                                                           *)
(*                                                                         *)
(* Conventions.  A Python string is a sequence of tokens (TLA+ strings);   *)
(* the token " " is one whitespace character.  A bytes object is a         *)
(* sequence of numbers 0..255.  An optional value (None or a value) is a   *)
(* sequence of length 0 (None) or 1 (the value).  The outcome of a call    *)
(* that may raise is a record [raised, exc, value].                        *)
(***************************************************************************)
EXTENDS Integers, Sequences, FiniteSets, TLC

VARIABLES
    config,       \* the configuration the process was started with (backend/core/config.py)
    startup,      \* "starting", "running", or the exception create_app raised
    extensions,   \* app.extensions: which objects serve 'ai_service' / 'search_service'
    searcher,     \* the fields of the LambdaFurnitureSearcher built at startup
    pc,           \* position of the request handler being run
    req,          \* the request being handled
    resp,         \* the HTTP response of the handler: [status, body]
    calls,        \* generate_image calls made for the request, in order
    hosted,       \* the hosted model's behaviour on the last generate_content call
    empty_bytes,  \* redesign_image's local empty_bytes (result of step 1)
    search_calls, \* search_service.search calls made for the request, in order
    now,          \* time.time()
    last_warm,    \* LambdaCLIPService._last_warm
    warm_interval, \* LambdaCLIPService._warm_interval, in seconds
    warm_threads, \* the warm threads started and not yet finished
    warm_log,     \* the warm_async calls made so far, in order
    workers       \* the locals of the request handlers running at the same time

appVars == <<config, startup, extensions, searcher>>
genVars == <<calls, hosted, empty_bytes>>
searchVars == <<search_calls>>
warmVars == <<now, last_warm, warm_interval, warm_threads, warm_log>>
workerVars == <<workers>>
vars == <<appVars, pc, req, resp, genVars, searchVars, warmVars, workerVars>>

\* ------------------------------------------------------------------ bounds

\* Largest number of parts in a response of the hosted generative model.
MaxParts == 2

\* ------------------------------------------------------- optional values

None == <<>>
Some(v) == <<v>>
IsNone(o) == o = <<>>
Get(o) == o[1]

\* Outcomes of a call: a returned value, or a raised exception with its
\* class and its message text.
Return(v) == [raised |-> FALSE, exc |-> "", msg |-> "", value |-> v]
RaiseMsg(e, m) == [raised |-> TRUE, exc |-> e, msg |-> m, value |-> None]
Raise(e) == RaiseMsg(e, "")

\* ------------------------------------------------------------ byte strings

\* Sample payloads.  The first two bytes stand for the file signature that
\* PIL's Image.open identifies the format by.
EMPTY == <<>>
JPEG1 == <<255, 216, 11>>
PNG1 == <<137, 80, 12>>
WEBP1 == <<82, 73, 13>>
GIF1 == <<71, 73, 14>>
BMP1 == <<66, 77, 15>>
JUNK == <<110, 111>>
PNG2 == <<137, 80, 22>>
JPEG2 == <<255, 216, 21>>

\* PIL Image.open(...).format for a byte string: the format name, or "" when
\* PIL cannot identify the bytes (Image.open raises UnidentifiedImageError).
PILFormat(b) ==
    IF Len(b) < 2 THEN ""
    ELSE IF b[1] = 255 /\ b[2] = 216 THEN "JPEG"
    ELSE IF b[1] = 137 /\ b[2] = 80 THEN "PNG"
    ELSE IF b[1] = 82 /\ b[2] = 73 THEN "WEBP"
    ELSE IF b[1] = 71 /\ b[2] = 73 THEN "GIF"
    ELSE IF b[1] = 66 /\ b[2] = 77 THEN "BMP"
    ELSE ""

\* str.lower() of a format name.
FormatLower(f) ==
    CASE f = "JPEG" -> "jpeg"
      [] f = "PNG" -> "png"
      [] f = "WEBP" -> "webp"
      [] f = "GIF" -> "gif"
      [] f = "BMP" -> "bmp"
      [] OTHER -> f

\* format_to_mime.get(format_lower, 'image/png')
format_to_mime(format_lower) ==
    CASE format_lower = "jpeg" -> "image/jpeg"
      [] format_lower = "jpg" -> "image/jpeg"
      [] format_lower = "png" -> "image/png"
      [] format_lower = "webp" -> "image/webp"
      [] format_lower = "gif" -> "image/gif"
      [] OTHER -> "image/png"

\* detect_image_mime_type: the fallback 'image/png' for falsy bytes and for
\* bytes Image.open raises on; the mapped MIME type otherwise.
detect_image_mime_type(image_bytes) ==
    IF image_bytes = EMPTY THEN "image/png"
    ELSE IF PILFormat(image_bytes) = "" THEN "image/png"
    ELSE format_to_mime(FormatLower(PILFormat(image_bytes)))

allowed_mimetypes == {"image/jpeg", "image/png", "image/webp"}

\* The try block of detect_image_mime_type (lines 23-37): Image.open raises
\* on bytes it cannot identify.
detect_image_mime_type_try(image_bytes) ==
    IF PILFormat(image_bytes) = "" THEN Raise("UnidentifiedImageError")
    ELSE Return(format_to_mime(FormatLower(PILFormat(image_bytes))))

\* A mutant of detect_image_mime_type_call: without the except clause.
detect_image_mime_type_NoExcept(image_bytes) ==
    IF image_bytes = EMPTY THEN Return("image/png")
    ELSE detect_image_mime_type_try(image_bytes)

\* A call of detect_image_mime_type as its caller sees it: the early return
\* for falsy bytes (lines 20-21; None and b'' are both the empty sequence
\* here), the try block, and the except clause (lines 38-40).
detect_image_mime_type_call(image_bytes) ==
    IF image_bytes = EMPTY THEN Return("image/png")
    ELSE IF detect_image_mime_type_try(image_bytes).raised THEN Return("image/png")
    ELSE detect_image_mime_type_try(image_bytes)

\* ---------------------------------------------------------------- base64

RECURSIVE b64encode(_)
\* base64.b64encode: three bytes give four 6-bit digits (0..63); a tail of one
\* or two bytes is padded with the digit 64 ('=').
b64encode(b) ==
    IF Len(b) = 0 THEN <<>>
    ELSE IF Len(b) = 1 THEN
        <<b[1] \div 4, (b[1] % 4) * 16, 64, 64>>
    ELSE IF Len(b) = 2 THEN
        <<b[1] \div 4, (b[1] % 4) * 16 + (b[2] \div 16), (b[2] % 16) * 4, 64>>
    ELSE
        <<b[1] \div 4, (b[1] % 4) * 16 + (b[2] \div 16),
          (b[2] % 16) * 4 + (b[3] \div 64), b[3] % 64>>
        \o b64encode(SubSeq(b, 4, Len(b)))

\* A mutant of process_image_for_frontend: the MIME type is hardcoded.
process_image_for_frontend_Png(image_bytes) ==
    IF image_bytes = EMPTY THEN None
    ELSE Some([mime |-> "image/png", b64 |-> b64encode(image_bytes)])

\* process_image_for_frontend: None for falsy bytes, else the data URI
\* 'data:{mime};base64,{b64}', kept as its two varying parts.
process_image_for_frontend(image_bytes) ==
    IF image_bytes = EMPTY THEN None
    ELSE Some([mime |-> detect_image_mime_type(image_bytes),
               b64 |-> b64encode(image_bytes)])

RECURSIVE b64decode(_)
\* base64.b64decode of a string of base64 digits: four digits give three
\* bytes, a group closed by one or two '=' gives two or one and ends the
\* data, and a last group of fewer than four digits is binascii.Error
\* ('Incorrect padding').
b64decode(d) ==
    IF Len(d) = 0 THEN Return(<<>>)
    ELSE IF Len(d) < 4 THEN Raise("binascii.Error")
    ELSE IF d[3] = 64 /\ d[4] = 64 THEN
        Return(<<d[1] * 4 + (d[2] \div 16)>>)
    ELSE IF d[4] = 64 THEN
        Return(<<d[1] * 4 + (d[2] \div 16), (d[2] % 16) * 16 + (d[3] \div 4)>>)
    ELSE
        LET rest == b64decode(SubSeq(d, 5, Len(d)))
        IN  IF rest.raised THEN rest
            ELSE Return(<<d[1] * 4 + (d[2] \div 16), (d[2] % 16) * 16 + (d[3] \div 4),
                          (d[3] % 4) * 64 + d[4]>> \o rest.value)

\* The MIME types a data URI of the model is headed by; "" stands for a
\* string without the 'data:image/...;base64,' head.
ImageMimes == {"image/jpeg", "image/png", "image/webp", "image/gif"}

\* A mutant of decode_frontend_image: the head is taken off and what is left
\* is returned as it is, without base64 decoding.
decode_frontend_image_NoDecode(uri) ==
    IF IsNone(uri) THEN None
    ELSE IF Get(uri).mime = "" /\ Get(uri).b64 = <<>> THEN None
    ELSE Some(Get(uri).b64)

\* decode_frontend_image (image_utils.py 59-75) of an optional string kept
\* as [mime, b64]: None for None and for '' (line 69-70); re.sub takes the
\* head 'data:image/...;base64,' off (line 71) and base64.b64decode decodes
\* what is left (line 72); its exception is logged and turned into None
\* (lines 73-75).
decode_frontend_image(uri) ==
    IF IsNone(uri) THEN None
    ELSE IF Get(uri).mime = "" /\ Get(uri).b64 = <<>> THEN None
    ELSE IF b64decode(Get(uri).b64).raised THEN None
    ELSE Some(b64decode(Get(uri).b64).value)

\* ------------------------------------------------------------------ text

RECURSIVE lstrip(_)
lstrip(t) == IF t # <<>> /\ t[1] = " " THEN lstrip(Tail(t)) ELSE t

RECURSIVE rstrip(_)
rstrip(t) ==
    IF t # <<>> /\ t[Len(t)] = " " THEN rstrip(SubSeq(t, 1, Len(t) - 1)) ELSE t

\* str.strip()
strip(t) == rstrip(lstrip(t))

\* sub in text
Contains(text, sub) ==
    \E i \in 0..(Len(text) - Len(sub)) : SubSeq(text, i + 1, i + Len(sub)) = sub

\* x or default, for an optional string x (None and '' are falsy).
OrDefault(o, default) == IF IsNone(o) \/ Get(o) = <<>> THEN default ELSE Get(o)

\* form.get(name, default), for an optional string.
GetDefault(o, default) == IF IsNone(o) THEN default ELSE Get(o)

\* ---------------------------------------------------------------- prompts

get_empty_room_prompt ==
    <<"Remove all furniture, people, and objects from this room.", " ",
      "Show the room completely empty with bare walls and flooring.", " ",
      "Keep the exact architecture, size, window positions, lighting, and perspective unchanged.",
      " ", "Photorealistic.">>

\* A mutant of get_design_prompt: the room type is left out of the prompt.
get_design_prompt_NoRoom(style, room_type, additional_instructions) ==
    <<"Furnish this empty room as a", " ">> \o style \o <<".", " ",
      "Keep the exact architecture, size, window positions, lighting, and perspective unchanged.",
      " ", "Add furniture, rugs, and decor matching the style. Photorealistic.">>

get_design_prompt(style, room_type, additional_instructions) ==
    LET base_prompt ==
            <<"Furnish this empty room as a", " ">> \o style \o <<" ">> \o room_type
            \o <<".", " ",
                 "Keep the exact architecture, size, window positions, lighting, and perspective unchanged.",
                 " ", "Add furniture, rugs, and decor matching the style. Photorealistic.">>
    IN  IF additional_instructions # <<>> /\ strip(additional_instructions) # <<>>
        THEN base_prompt \o <<" ">> \o strip(additional_instructions)
        ELSE base_prompt

\* ------------------------------------------------- the hosted generative model

\* A response part: None for a part without inline data (text), Some(d) for a
\* part whose inline_data.data is d.
PartValues == {None, Some(PNG2), Some(JPEG2), Some(EMPTY)}

PartSeqs == UNION {[1..n -> PartValues] : n \in 0..MaxParts}

\* What client.models.generate_content can do: raise (transport or API
\* error), answer without candidates, or answer with a list of parts.
HostedBehaviours ==
    {[kind |-> "raise", candidates |-> 0, parts |-> <<>>],
     [kind |-> "response", candidates |-> 0, parts |-> <<>>]}
    \cup {[kind |-> "response", candidates |-> 1, parts |-> ps] : ps \in PartSeqs}

NoHosted == [kind |-> "none", candidates |-> 0, parts |-> <<>>]

RECURSIVE first_inline_data(_)
\* for part in parts: if part.inline_data: return part.inline_data.data
\* (falling off the loop returns None)
first_inline_data(parts) ==
    IF parts = <<>> THEN None
    ELSE IF ~IsNone(Head(parts)) THEN Some(Get(Head(parts)))
    ELSE first_inline_data(Tail(parts))

\* The try block of GeminiService.generate_image (ai_service.py 31-46):
\* generate_content may raise, candidates[0] raises IndexError on an empty
\* list, else the first part with inline data decides.
generate_image_try(input_image_bytes, prompt, h) ==
    IF h.kind = "raise" THEN Raise("APIError")
    ELSE IF h.candidates = 0 THEN Raise("IndexError")
    ELSE Return(first_inline_data(h.parts))

\* A mutant of generate_image: the except clause is missing.
generate_image_NoExcept(input_image_bytes, prompt, h) ==
    generate_image_try(input_image_bytes, prompt, h)

\* GeminiService.generate_image: every Exception of the try block is logged
\* and turned into None.
generate_image(input_image_bytes, prompt, h) ==
    LET r == generate_image_try(input_image_bytes, prompt, h)
    IN  IF r.raised THEN Return(None) ELSE r

\* What a unittest Mock installed as ai_service can do on generate_image
\* (tests/api/test_routes.py): return any value or raise.
MockOutcomes ==
    {Return(None), Return(Some(PNG2)), Return(Some(EMPTY)), Raise("Exception"),
     RaiseMsg("Exception", "API Error: key AIza-1 rejected")}

\* One ai_service.generate_image call as the route sees it: the pairs of the
\* hosted model's behaviour and the outcome of the call.
AiCall(kind, input_image_bytes, prompt) ==
    IF kind = "GeminiService"
    THEN {[hosted |-> h, outcome |-> generate_image(input_image_bytes, prompt, h)] :
            h \in HostedBehaviours}
    ELSE {[hosted |-> NoHosted, outcome |-> o] : o \in MockOutcomes}

\* The record kept of a call.
CallRecord(kind, input_image_bytes, prompt, outcome) ==
    [input |-> input_image_bytes,
     prompt |-> prompt,
     mime |-> IF kind = "GeminiService"
              THEN detect_image_mime_type(input_image_bytes) ELSE "",
     outcome |-> outcome]

\* Python truthiness of an optional bytes value: None and b'' are falsy.
Falsy(o) == IsNone(o) \/ Get(o) = EMPTY

\* ------------------------------------------------------- /api/redesign

\* str.lower() of the tokens a flag value is made of.
Lower(tok) ==
    CASE tok = "TRUE" -> "true"
      [] tok = "True" -> "true"
      [] tok = "YES" -> "yes"
      [] tok = "Yes" -> "yes"
      [] tok = "FALSE" -> "false"
      [] OTHER -> tok

lower(t) == [i \in 1..Len(t) |-> Lower(t[i])]

\* A mutant of empty_then_generate: the value is compared as it was sent.
empty_then_generate_NoLower(r) ==
    GetDefault(r.empty_then_generate, <<"false">>) \in {<<"true">>, <<"1">>, <<"yes">>}

\* request.form.get('empty_then_generate', 'false').lower() in ('true', '1', 'yes')
empty_then_generate(r) ==
    lower(GetDefault(r.empty_then_generate, <<"false">>))
        \in {<<"true">>, <<"1">>, <<"yes">>}

\* The locals style, room_type and additional_instructions (routes.py 62-64).
style_of(r) == strip(OrDefault(r.style, <<"Nordic">>))
room_type_of(r) == strip(OrDefault(r.room_type, <<"Living", " ", "Room">>))
additional_instructions_of(r) == strip(GetDefault(r.additional_instructions, <<>>))

design_prompt_of(r) ==
    get_design_prompt(style_of(r), room_type_of(r), additional_instructions_of(r))

Uploads == {EMPTY, JPEG1, PNG1, WEBP1, GIF1, BMP1, JUNK}
Filenames == {<<>>, <<"room.png">>}
Styles == {None, Some(<<"Modern">>), Some(<<" ", "Japandi", " ">>)}
RoomTypes == {None, Some(<<"Bedroom">>)}
Additions == {None, Some(<<"Add", " ", "plants", " ">>)}
Flags == {None, Some(<<"true">>), Some(<<"Yes">>), Some(<<"false">>),
          Some(<<"1">>), Some(<<"TRUE">>), Some(<<"on">>), Some(<<" ", "true">>),
          Some(<<>>)}

\* The multipart requests a client can post to /api/redesign: without a
\* 'file' part, with an empty filename, or with a named file.
RedesignRequests ==
    {[route |-> "redesign", has_file |-> FALSE, filename |-> <<>>, bytes |-> EMPTY,
      style |-> None, room_type |-> None, additional_instructions |-> None,
      empty_then_generate |-> None]}
    \cup
    {[route |-> "redesign", has_file |-> TRUE, filename |-> <<>>, bytes |-> b,
      style |-> None, room_type |-> None, additional_instructions |-> None,
      empty_then_generate |-> None] : b \in {EMPTY, PNG1}}
    \cup
    {[route |-> "redesign", has_file |-> TRUE, filename |-> <<"room.png">>, bytes |-> b,
      style |-> st, room_type |-> rt, additional_instructions |-> ad,
      empty_then_generate |-> fl] :
        b \in Uploads, st \in Styles, rt \in RoomTypes, ad \in Additions, fl \in Flags}

NoRequest ==
    [route |-> "none", has_file |-> FALSE, filename |-> <<>>, bytes |-> EMPTY,
     style |-> None, room_type |-> None, additional_instructions |-> None,
     empty_then_generate |-> None]

Error(status, message) == [status |-> status, body |-> [error |-> message]]

NoResponse == [status |-> 0, body |-> [error |-> ""]]

\* The answer Flask gives when a view raises: its 500 page, not a JSON body
\* of the view.
Unhandled == [status |-> 500, body |-> [html |-> "Internal Server Error"]]

\* _get_services (lines 15-21).
get_services(ext) ==
    IF ext.ai_service = "none" \/ ext.search_service = "none"
    THEN Raise("RuntimeError") ELSE Return(ext)

\* A mutant of redesign_validate: the content is looked at before the
\* filename.
redesign_validate_ContentFirst(r) ==
    IF ~r.has_file THEN Some(Error(400, "No file uploaded"))
    ELSE IF r.bytes = EMPTY THEN Some(Error(400, "Empty file"))
    ELSE IF r.filename = <<>> THEN Some(Error(400, "No file selected"))
    ELSE IF detect_image_mime_type(r.bytes) \notin allowed_mimetypes
         THEN Some([status |-> 400,
                    body |-> [error |-> "Unsupported file type",
                              detected |-> detect_image_mime_type(r.bytes)]])
    ELSE None

\* A mutant of redesign_validate: the declared content type is trusted.
redesign_validate_Declared(r) ==
    IF ~r.has_file THEN Some(Error(400, "No file uploaded"))
    ELSE IF r.filename = <<>> THEN Some(Error(400, "No file selected"))
    ELSE IF r.bytes = EMPTY THEN Some(Error(400, "Empty file"))
    ELSE IF r.content_type \notin allowed_mimetypes
         THEN Some([status |-> 400,
                    body |-> [error |-> "Unsupported file type",
                              detected |-> r.content_type]])
    ELSE None

\* redesign_image, lines 43-60: the rejection of the request, or None when
\* the upload is accepted.
redesign_validate(r) ==
    IF ~r.has_file THEN Some(Error(400, "No file uploaded"))
    ELSE IF r.filename = <<>> THEN Some(Error(400, "No file selected"))
    ELSE IF r.bytes = EMPTY THEN Some(Error(400, "Empty file"))
    ELSE IF detect_image_mime_type(r.bytes) \notin allowed_mimetypes
         THEN Some([status |-> 400,
                    body |-> [error |-> "Unsupported file type",
                              detected |-> detect_image_mime_type(r.bytes)]])
    ELSE None

\* redesign_image up to its first remote call (lines 43-72); _get_services
\* (line 69) is called outside the try.
RedesignReceive ==
    /\ startup = "running"
    /\ pc = "idle"
    /\ \E r \in RedesignRequests :
        /\ req' = r
        /\ IF ~IsNone(redesign_validate(r))
           THEN /\ resp' = Get(redesign_validate(r))
                /\ pc' = "done"
           ELSE IF get_services(extensions).raised
           THEN /\ resp' = Unhandled
                /\ pc' = "done"
           ELSE /\ resp' = NoResponse
                /\ pc' = IF empty_then_generate(r) THEN "empty" ELSE "design"
    /\ calls' = <<>>
    /\ empty_bytes' = None
    /\ hosted' = NoHosted
    /\ UNCHANGED <<appVars, workerVars, searchVars, warmVars>>

\* A mutant of after_empty_step: a step 1 that returned no image is not
\* noticed, and the handler goes on to the design step.
after_empty_step_Continue(outcome) ==
    IF outcome.raised
    THEN [pc |-> "done", resp |-> Error(500, "Failed to design room")]
    ELSE [pc |-> "design", resp |-> NoResponse]

\* A mutant of after_empty_step: a step 1 that returned no image is tried
\* again.
after_empty_step_Retry(outcome) ==
    IF outcome.raised
    THEN [pc |-> "done", resp |-> Error(500, "Failed to design room")]
    ELSE IF Falsy(outcome.value)
    THEN [pc |-> "empty", resp |-> NoResponse]
    ELSE [pc |-> "design", resp |-> NoResponse]

\* A mutant of after_empty_step: an exception in step 1 is reported as a
\* room that could not be emptied.
after_empty_step_Unnamed(outcome) ==
    IF outcome.raised \/ Falsy(outcome.value)
    THEN [pc |-> "done", resp |-> Error(500, "Failed to empty room")]
    ELSE [pc |-> "design", resp |-> NoResponse]

\* What redesign_image does with the outcome of step 1 (lines 75-78, 105-107).
after_empty_step(outcome) ==
    IF outcome.raised
    THEN [pc |-> "done", resp |-> Error(500, "Failed to design room")]
    ELSE IF Falsy(outcome.value)
    THEN [pc |-> "done", resp |-> Error(500, "Failed to empty room")]
    ELSE [pc |-> "design", resp |-> NoResponse]

\* Step 1 of the empty-then-generate workflow (lines 74-78).
GenerateEmpty ==
    /\ pc = "empty"
    /\ \E c \in AiCall(extensions.ai_service, req.bytes, get_empty_room_prompt) :
        /\ hosted' = c.hosted
        /\ calls' = Append(calls, CallRecord(extensions.ai_service, req.bytes,
                                             get_empty_room_prompt, c.outcome))
        /\ empty_bytes' = c.outcome.value
        /\ pc' = after_empty_step(c.outcome).pc
        /\ resp' = after_empty_step(c.outcome).resp
    /\ UNCHANGED <<appVars, workerVars, req, searchVars, warmVars>>

\* A mutant of design_input: the design step is always given the upload.
design_input_Original(r, empty) == r.bytes

\* The image the design step works on: the emptied room in the two-step
\* workflow (line 82), the upload in the single-step one (line 95).
design_input(r, empty) == IF empty_then_generate(r) THEN Get(empty) ELSE r.bytes

\* The 'before' image of the response (lines 89 and 102).
before_image(r, empty) == IF empty_then_generate(r) THEN Get(empty) ELSE r.bytes

\* A mutant of after_design_step: a failed design step still answers with
\* the images obtained so far.
after_design_step_Partial(r, empty, outcome) ==
    IF outcome.raised THEN Error(500, "Failed to design room")
    ELSE [status |-> IF Falsy(outcome.value) THEN 500 ELSE 200,
          body |-> [original_image |-> process_image_for_frontend(r.bytes),
                    empty_image |-> process_image_for_frontend(before_image(r, empty)),
                    final_image |-> IF IsNone(outcome.value) THEN None
                                    ELSE process_image_for_frontend(Get(outcome.value))]]

\* What redesign_image answers after the design step (lines 84-91, 97-107).
after_design_step(r, empty, outcome) ==
    IF outcome.raised THEN Error(500, "Failed to design room")
    ELSE IF Falsy(outcome.value) THEN Error(500, "Failed to design room")
    ELSE [status |-> 200,
          body |-> [original_image |-> process_image_for_frontend(r.bytes),
                    empty_image |-> process_image_for_frontend(before_image(r, empty)),
                    final_image |-> process_image_for_frontend(Get(outcome.value))]]

\* The design step: step 2 of the empty-then-generate workflow (lines 81-91)
\* or the only step of the single-step one (lines 94-104).
GenerateDesign ==
    /\ pc = "design"
    /\ \E c \in AiCall(extensions.ai_service, design_input(req, empty_bytes),
                       design_prompt_of(req)) :
        /\ hosted' = c.hosted
        /\ calls' = Append(calls, CallRecord(extensions.ai_service,
                                             design_input(req, empty_bytes),
                                             design_prompt_of(req), c.outcome))
        /\ resp' = after_design_step(req, empty_bytes, c.outcome)
    /\ pc' = "done"
    /\ UNCHANGED <<appVars, workerVars, req, empty_bytes, searchVars, warmVars>>

\* The response is sent; the handler's locals are gone and the worker takes
\* the next request.
Finish ==
    /\ pc = "done"
    /\ pc' = "idle"
    /\ req' = NoRequest
    /\ resp' = NoResponse
    /\ calls' = <<>>
    /\ hosted' = NoHosted
    /\ empty_bytes' = None
    /\ search_calls' = <<>>
    /\ UNCHANGED <<appVars, workerVars, warmVars>>

\* --------------------------------------------------------- configuration

\* A catalog as the two files hold it: the CSV rows (clean_id and metadata)
\* and the pickled rows (clean_id and embedding).  Embedding vectors are
\* kept by two integer coordinates whose norm is an integer.
CatalogA ==
    [csv |-> <<[clean_id |-> "a", title |-> <<"Sofa">>, price |-> <<"499">>,
                source |-> <<"ikea">>, image_url |-> <<"u/a">>],
               [clean_id |-> "b", title |-> <<"Lamp">>, price |-> <<"39">>,
                source |-> <<"jysk">>, image_url |-> <<"u/b">>],
               [clean_id |-> "c", title |-> <<"Rug">>, price |-> <<"120">>,
                source |-> <<"ikea">>, image_url |-> <<"u/c">>],
               [clean_id |-> "d", title |-> <<"Desk">>, price |-> <<"210">>,
                source |-> <<"jysk">>, image_url |-> <<"u/d">>]>>,
     pkl |-> <<[clean_id |-> "a", embedding |-> <<3, 4>>],
               [clean_id |-> "b", embedding |-> <<1, 0>>],
               [clean_id |-> "x", embedding |-> <<4, 3>>],
               [clean_id |-> "c", embedding |-> <<0, 1>>],
               [clean_id |-> "d", embedding |-> <<-1, 0>>]>>]

CatalogB ==
    [csv |-> <<[clean_id |-> "a", title |-> <<"Sofa">>, price |-> <<"499">>,
                source |-> <<"ikea">>, image_url |-> <<"u/a">>],
               [clean_id |-> "b", title |-> <<"Lamp">>, price |-> <<"39">>,
                source |-> <<"jysk">>, image_url |-> <<"u/b">>]>>,
     pkl |-> <<[clean_id |-> "b", embedding |-> <<0, 1>>],
               [clean_id |-> "a", embedding |-> <<1, 0>>]>>]

\* A catalog whose embeddings table has a row with a list as clean_id.
CatalogC ==
    [csv |-> <<[clean_id |-> "a", title |-> <<"Sofa">>, price |-> <<"499">>,
                source |-> <<"ikea">>, image_url |-> <<"u/a">>],
               [clean_id |-> "b", title |-> <<"Lamp">>, price |-> <<"39">>,
                source |-> <<"jysk">>, image_url |-> <<"u/b">>]>>,
     pkl |-> <<[clean_id |-> "b", embedding |-> <<0, 1>>],
               [clean_id |-> "['a']", embedding |-> <<3, 4>>],
               [clean_id |-> "x", embedding |-> <<4, 3>>],
               [clean_id |-> "a", embedding |-> <<1, 0>>]>>]

NoCatalog == [csv |-> <<>>, pkl |-> <<>>]

\* The configurations a process can start with.  GOOGLE_API_KEY and
\* LAMBDA_CLIP_URL: whether the value is a non-empty string.  catalog_files:
\* "undefined" when Config has no CSV_FILE / EMBEDDINGS_FILE attribute (the
\* Config class of config.py defines neither), "csv_missing" / "pkl_missing"
\* when the path is configured and the file is absent, "pkl_unreadable" when
\* read_pickle raises, "ok" when both files load.
Configs ==
    {[GOOGLE_API_KEY |-> k, LAMBDA_CLIP_URL |-> u, catalog_files |-> f, catalog |-> NoCatalog] :
        k \in BOOLEAN, u \in BOOLEAN,
        f \in {"undefined", "csv_missing", "pkl_missing", "pkl_unreadable"}}
    \cup
    {[GOOGLE_API_KEY |-> k, LAMBDA_CLIP_URL |-> u, catalog_files |-> "ok", catalog |-> c] :
        k \in BOOLEAN, u \in BOOLEAN, c \in {CatalogA, CatalogB}}

\* Config.validate (config.py 34-38): the exception raised, if any.
Config_validate(cfg) ==
    IF ~cfg.GOOGLE_API_KEY THEN Raise("ValueError") ELSE Return(None)

\* ------------------------------------------------- LambdaFurnitureSearcher

NoSearcher ==
    [df_data |-> None, df_embeddings |-> None, dataset_embeddings |-> None,
     product_lookup |-> <<>>, clip_service |-> None]

\* LambdaCLIPService.__init__ (lambda_search_service.py 23-30): the client is
\* built whether or not a URL is configured.
LambdaCLIPService_init(cfg) == [url |-> cfg.LAMBDA_CLIP_URL]

\* What the loading steps of __init__ run into (lines 150-186): the
\* AttributeError of an undefined Config.CSV_FILE, the early return for an
\* absent file, the exception of read_pickle, or nothing.
load_outcome(cfg) ==
    CASE cfg.catalog_files = "undefined" -> Raise("AttributeError")
      [] cfg.catalog_files = "csv_missing" -> Return("returned early")
      [] cfg.catalog_files = "pkl_missing" -> Return("returned early")
      [] cfg.catalog_files = "pkl_unreadable" -> Raise("UnpicklingError")
      [] OTHER -> Return("loaded")

\* A mutant of LambdaFurnitureSearcher_init: the except clause does not
\* reset what was loaded before the failure.
LambdaFurnitureSearcher_init_NoReset(cfg) ==
    LET defaults == [NoSearcher EXCEPT !.clip_service = Some(LambdaCLIPService_init(cfg))]
    IN  CASE cfg.catalog_files = "undefined" -> defaults
          [] cfg.catalog_files = "csv_missing" -> defaults
          [] cfg.catalog_files = "pkl_missing" -> defaults
          [] cfg.catalog_files = "pkl_unreadable" ->
                [defaults EXCEPT !.df_data = Some(cfg.catalog.csv),
                                 !.product_lookup = cfg.catalog.csv]
          [] OTHER ->
                [df_data |-> Some(cfg.catalog.csv),
                 df_embeddings |-> Some(cfg.catalog.pkl),
                 dataset_embeddings |->
                     Some([i \in 1..Len(cfg.catalog.pkl) |-> cfg.catalog.pkl[i].embedding]),
                 product_lookup |-> cfg.catalog.csv,
                 clip_service |-> Some(LambdaCLIPService_init(cfg))]

\* LambdaFurnitureSearcher.__init__ (lines 140-200).  It never raises: an
\* absent file returns early with df_data None (lines 156-164); any
\* exception - the AttributeError of an undefined Config.CSV_FILE, a failed
\* read - resets df_data, df_embeddings, clip_service and dataset_embeddings
\* to None (lines 195-200) and leaves product_lookup as it was.
LambdaFurnitureSearcher_init(cfg) ==
    LET defaults == [NoSearcher EXCEPT !.clip_service = Some(LambdaCLIPService_init(cfg))]
    IN  CASE cfg.catalog_files = "undefined" -> NoSearcher
          [] cfg.catalog_files = "csv_missing" -> defaults
          [] cfg.catalog_files = "pkl_missing" -> defaults
          [] cfg.catalog_files = "pkl_unreadable" ->
                [NoSearcher EXCEPT !.product_lookup = cfg.catalog.csv]
          [] OTHER ->
                [df_data |-> Some(cfg.catalog.csv),
                 df_embeddings |-> Some(cfg.catalog.pkl),
                 dataset_embeddings |->
                     Some([i \in 1..Len(cfg.catalog.pkl) |-> cfg.catalog.pkl[i].embedding]),
                 product_lookup |-> cfg.catalog.csv,
                 clip_service |-> Some(LambdaCLIPService_init(cfg))]

\* create_app (app.py 13-49): GeminiService() runs Config.validate (line 31);
\* when the searcher's df_data is None the warning block evaluates
\* Config.CSV_FILE (line 41), an AttributeError when Config does not define
\* it; else the blueprint is registered and the app returned.
create_app_outcome(cfg) ==
    IF Config_validate(cfg).raised THEN "ValueError"
    ELSE IF IsNone(LambdaFurnitureSearcher_init(cfg).df_data)
            /\ cfg.catalog_files = "undefined"
    THEN "AttributeError"
    ELSE "running"

\* create_app, as run by run.py at process start.
CreateApp ==
    /\ startup = "starting"
    /\ startup' = create_app_outcome(config)
    /\ IF Config_validate(config).raised
       THEN UNCHANGED <<extensions, searcher>>
       ELSE /\ searcher' = LambdaFurnitureSearcher_init(config)
            /\ extensions' = [ai_service |-> "GeminiService",
                              search_service |-> "LambdaFurnitureSearcher"]
    /\ UNCHANGED <<config, workerVars, pc, req, resp, genVars, searchVars, warmVars>>

\* The app fixture of tests/api/test_routes.py (lines 27-40): a Flask app
\* with the blueprint and a Mock for each service, built without create_app.
FixtureApp ==
    /\ startup = "starting"
    /\ startup' = "running"
    /\ extensions' = [ai_service |-> "Mock", search_service |-> "Mock"]
    /\ UNCHANGED <<config, workerVars, searcher, pc, req, resp, genVars, searchVars, warmVars>>

\* ------------------------------------------------------ LambdaCLIPService

\* The length get_image_embedding requires of the vector.
EMBEDDING_DIM == 512

Queries == {<<1, 0>>, <<3, 4>>, <<0, 0>>}

\* What the Lambda endpoint can do on a POST: fail in transport, answer with
\* an error status, or answer with a JSON payload.  A payload is a dict or
\* not, has the 'embedding' key or not, and holds as embedding a list
\* ("list"), a list wrapped in one list ("nested"), in two lists
\* ("nested2"), a list wrapped in an object under the key 'embedding'
\* ("dict"), or something that is no list ("string").  The entries of the
\* list are JSON numbers ("number"), strings that spell a number
\* ("numeric_text"), other strings ("text") or nulls ("null").
EmbBehaviours ==
    {[kind |-> k, is_dict |-> FALSE, has_key |-> FALSE, shape |-> "string",
      length |-> 0, entries |-> "number", vec |-> <<0, 0>>] :
        k \in {"transport", "http_error"}}
    \cup
    {[kind |-> "json", is_dict |-> d, has_key |-> FALSE, shape |-> "string",
      length |-> 0, entries |-> "number", vec |-> <<0, 0>>] : d \in BOOLEAN}
    \cup
    {[kind |-> "json", is_dict |-> TRUE, has_key |-> TRUE, shape |-> sh,
      length |-> n, entries |-> "number", vec |-> v] :
        sh \in {"list", "nested", "nested2", "dict", "string"},
        n \in {EMBEDDING_DIM, EMBEDDING_DIM \div 2}, v \in Queries}
    \cup
    {[kind |-> "json", is_dict |-> TRUE, has_key |-> TRUE, shape |-> "list",
      length |-> EMBEDDING_DIM, entries |-> en, vec |-> <<1, 0>>] :
        en \in {"numeric_text", "text", "null"}}

\* [float(x) for x in embedding] (line 92 / line 79): a number or a string
\* that spells one converts; any other string raises ValueError, None
\* raises TypeError.
floats_of(e) ==
    IF e.entries = "text" THEN Raise("ValueError")
    ELSE IF e.entries = "null" THEN Raise("TypeError")
    ELSE Return(e.vec)

\* LambdaCLIPService.get_image_embedding of backend/services/clip_service.py
\* (lines 38-83), the copy that search_service.py uses: as the one below
\* but for the unwrapping of an object, which it does not have.
clip_service_get_image_embedding(clip, e) ==
    IF ~clip.url THEN Raise("ValueError")
    ELSE IF e.kind \in {"transport", "http_error"} THEN Raise("RequestException")
    ELSE IF ~e.is_dict \/ ~e.has_key THEN Raise("ValueError")
    ELSE IF e.shape \notin {"list", "nested"} THEN Raise("ValueError")
    ELSE IF e.length # EMBEDDING_DIM THEN Raise("ValueError")
    ELSE floats_of(e)

\* A mutant of get_image_embedding: the length of the vector is not
\* looked at.
get_image_embedding_AnyLength(clip, e) ==
    IF ~clip.url THEN Raise("ValueError")
    ELSE IF e.kind \in {"transport", "http_error"} THEN Raise("RequestException")
    ELSE IF ~e.is_dict \/ ~e.has_key THEN Raise("ValueError")
    ELSE IF e.shape = "string" THEN Raise("ValueError")
    ELSE IF e.shape = "nested2" THEN Raise("ValueError")
    ELSE floats_of(e)

\* LambdaCLIPService.get_image_embedding (lines 38-96) for a PIL image.  No
\* URL: ValueError before any request (lines 47-48).  requests.post or
\* raise_for_status failing: the RequestException is logged and re-raised
\* (lines 94-96).  A payload that is no dict or lacks 'embedding': ValueError
\* (lines 66-67).  One single-element nesting is unwrapped (lines 73-74);
\* then a list held in an object under 'embedding' is taken out (lines
\* 77-78); what is then not a list of EMBEDDING_DIM entries: ValueError
\* (lines 88-89).  The entries are converted with float (line 92).
get_image_embedding(clip, e) ==
    IF ~clip.url THEN Raise("ValueError")
    ELSE IF e.kind \in {"transport", "http_error"} THEN Raise("RequestException")
    ELSE IF ~e.is_dict \/ ~e.has_key THEN Raise("ValueError")
    ELSE IF e.shape = "string" THEN Raise("ValueError")
    ELSE IF e.shape = "nested2" THEN Raise("ValueError")
    ELSE IF e.length # EMBEDDING_DIM THEN Raise("ValueError")
    ELSE floats_of(e)

\* The number of HTTP requests get_image_embedding sends.
posts_of(clip) == IF clip.url THEN 1 ELSE 0

\* The two modules that define LambdaCLIPService.
ClipModules == {"lambda_search_service", "clip_service"}

\* get_image_embedding called on a PIL image, on the client of either
\* module, as tests/services/test_clip_service.py does.
GetImageEmbedding ==
    /\ pc = "embed"
    /\ \E m \in ClipModules, e \in EmbBehaviours :
        LET clip == LambdaCLIPService_init(config)
        IN  search_calls' = Append(search_calls,
                [module |-> m, emb |-> e, posts |-> posts_of(clip),
                 outcome |-> IF m = "clip_service"
                             THEN clip_service_get_image_embedding(clip, e)
                             ELSE get_image_embedding(clip, e)])
    /\ pc' = "embedded"
    /\ UNCHANGED <<appVars, workerVars, req, resp, genVars, warmVars>>

\* ------------------------------------------------------ similarity search

\* numpy.linalg.norm of a vector of the model (the norms are integers).
Norm(v) == CHOOSE n \in 0..8 : n * n = v[1] * v[1] + v[2] * v[2]

\* The cosine similarity of a catalog vector and the query (lines 225-233),
\* in units of 1/25; a zero vector scores 0 (the 1e-8 keeps the division
\* defined).
Score(a, q) ==
    IF Norm(a) = 0 \/ Norm(q) = 0 THEN 0
    ELSE (25 * (a[1] * q[1] + a[2] * q[2])) \div (Norm(a) * Norm(q))

similarity_scores(dataset, q) == [i \in 1..Len(dataset) |-> Score(dataset[i], q)]

RECURSIVE descending(_, _)
\* np.argsort(scores)[::-1] restricted to the indices in left: the highest
\* score first, and of equal scores the later row first.
descending(scores, left) ==
    IF left = {} THEN <<>>
    ELSE LET best == CHOOSE i \in left :
                        \A j \in left :
                            \/ scores[j] < scores[i]
                            \/ (scores[j] = scores[i] /\ j <= i)
         IN  <<best>> \o descending(scores, left \ {best})

\* seq[:k]
Take(seq, k) == SubSeq(seq, 1, IF Len(seq) < k THEN Len(seq) ELSE k)

\* A mutant of top_indices: the order of argsort is not reversed.
top_indices_Ascending(scores, top_k) ==
    LET d == descending(scores, DOMAIN scores)
    IN  Take([i \in 1..Len(d) |-> d[Len(d) + 1 - i]], top_k)

\* top_indices = np.argsort(similarity_scores)[::-1][:top_k] (line 235)
top_indices(scores, top_k) == Take(descending(scores, DOMAIN scores), top_k)

\* self.product_lookup.get(clean_id): the CSV row of that id, or None.
lookup_get(product_lookup, clean_id) ==
    LET hits == {i \in 1..Len(product_lookup) : product_lookup[i].clean_id = clean_id}
    IN  IF hits = {} THEN None ELSE Some(product_lookup[CHOOSE i \in hits : TRUE])

\* The dict appended for a hit (lines 245-253).
result_of(item, score) ==
    [score |-> score, title |-> item.title, price |-> item.price,
     source |-> item.source, image_url |-> item.image_url,
     search_query |-> item.title \o <<" ">> \o item.source]

\* Values of a clean_id cell that are lists (written as Python writes them):
\* dict.get raises TypeError on them, a list being unhashable.  A searcher
\* built by __init__ has none, its ids having gone through astype(str).
UnhashableIds == {"['a']"}

\* Lines 240-241 for the hit at row idx: the catalog record of its clean_id,
\* None when there is none, or the exception of the lookup.
item_of(s, idx) ==
    IF Get(s.df_embeddings)[idx].clean_id \in UnhashableIds THEN Raise("TypeError")
    ELSE Return(lookup_get(s.product_lookup, Get(s.df_embeddings)[idx].clean_id))

RECURSIVE build_results_Abort(_, _, _)
\* A mutant of build_results: an error on one hit ends the loop.
build_results_Abort(s, scores, indices) ==
    IF indices = <<>> THEN <<>>
    ELSE LET idx == Head(indices)
             item == item_of(s, idx)
             rest == build_results_Abort(s, scores, Tail(indices))
         IN  IF item.raised THEN <<>>
             ELSE IF IsNone(item.value) THEN rest
             ELSE <<result_of(Get(item.value), scores[idx])>> \o rest

RECURSIVE build_results(_, _, _)
\* The loop over top_indices (lines 238-256): a hit whose lookup raises is
\* logged and skipped (lines 254-256), a hit without a catalog record is
\* left out (line 244).
build_results(s, scores, indices) ==
    IF indices = <<>> THEN <<>>
    ELSE LET idx == Head(indices)
             item == item_of(s, idx)
             rest == build_results(s, scores, Tail(indices))
         IN  IF item.raised THEN rest
             ELSE IF IsNone(item.value) THEN rest
             ELSE <<result_of(Get(item.value), scores[idx])>> \o rest

\* A mutant of search: a failed embedding call is not caught.
search_NoCatch(s, top_k, e) ==
    IF IsNone(s.df_data) THEN Raise("RuntimeError")
    ELSE IF IsNone(s.clip_service) THEN Raise("RuntimeError")
    ELSE LET emb == get_image_embedding(Get(s.clip_service), e)
         IN  IF emb.raised THEN emb
             ELSE Return(build_results(s,
                    similarity_scores(Get(s.dataset_embeddings), emb.value),
                    top_indices(similarity_scores(Get(s.dataset_embeddings), emb.value),
                                top_k)))

\* LambdaFurnitureSearcher.search (lines 202-263): RuntimeError when df_data
\* or clip_service is None (lines 204-210); any exception of the embedding
\* and similarity steps is logged and answered with [] (lines 261-263).
search(s, top_k, e) ==
    IF IsNone(s.df_data) THEN Raise("RuntimeError")
    ELSE IF IsNone(s.clip_service) THEN Raise("RuntimeError")
    ELSE LET emb == get_image_embedding(Get(s.clip_service), e)
         IN  IF emb.raised THEN Return(<<>>)
             ELSE Return(build_results(s,
                    similarity_scores(Get(s.dataset_embeddings), emb.value),
                    top_indices(similarity_scores(Get(s.dataset_embeddings), emb.value),
                                top_k)))

\* Whether search gets as far as the embedding call.
reaches_embedding(s) == ~IsNone(s.df_data) /\ ~IsNone(s.clip_service)

NoEmb ==
    [kind |-> "none", is_dict |-> FALSE, has_key |-> FALSE, shape |-> "string",
     length |-> 0, entries |-> "number", vec |-> <<0, 0>>]

\* What a unittest Mock installed as search_service can do on search.
MockSearchOutcomes ==
    {Return(<<>>), Raise("RuntimeError"), Raise("Exception"),
     RaiseMsg("RuntimeError", "/data/emb.pkl not loaded"),
     RaiseMsg("Exception", "Unexpected error")}

\* One search_service.search call as the route sees it.
SearchServiceCall(kind, s, top_k) ==
    IF kind = "LambdaFurnitureSearcher"
    THEN {[emb |-> IF reaches_embedding(s) THEN e ELSE NoEmb,
           posts |-> IF reaches_embedding(s) THEN posts_of(Get(s.clip_service)) ELSE 0,
           outcome |-> search(s, top_k, e)] : e \in EmbBehaviours}
    ELSE {[emb |-> NoEmb, posts |-> 0, outcome |-> o] : o \in MockSearchOutcomes}

\* A searcher whose tables were put in place directly, as a test does with a
\* fixture, not loaded by __init__.
SearcherOf(catalog, clip) ==
    [df_data |-> Some(catalog.csv),
     df_embeddings |-> Some(catalog.pkl),
     dataset_embeddings |-> Some([i \in 1..Len(catalog.pkl) |-> catalog.pkl[i].embedding]),
     product_lookup |-> catalog.csv,
     clip_service |-> Some(clip)]

\* ------------------------------------------------- /api/search-furniture

\* The number of results the route asks for (routes.py line 218).
TOP_K == 4

\* A form value that should be a number: absent, not numeric, or a number
\* kept in tenths.
Absent == [kind |-> "absent", tenths |-> 0]
NotNumeric == [kind |-> "text", tenths |-> 0]
Num(t) == [kind |-> "num", tenths |-> t]

\* float(request.form.get(name, 0)) for box_x and box_y (lines 173-174).
float_or_zero(v) ==
    IF v.kind = "absent" THEN Return(0)
    ELSE IF v.kind = "text" THEN Raise("ValueError")
    ELSE Return(v.tenths)

\* A mutant of float_required: an absent value counts as 0.
float_required_Default(v) ==
    IF v.kind = "absent" THEN Return(0)
    ELSE IF v.kind = "text" THEN Raise("ValueError")
    ELSE Return(v.tenths)

\* float(request.form.get(name)) for box_width and box_height (lines
\* 175-176): float(None) is a TypeError.
float_required(v) ==
    IF v.kind = "absent" THEN Raise("TypeError")
    ELSE IF v.kind = "text" THEN Raise("ValueError")
    ELSE Return(v.tenths)

\* int() of a number kept in tenths: truncation toward zero.
int_of(t) == IF t >= 0 THEN t \div 10 ELSE -((-t) \div 10)

BoxXs == {Absent, Num(105)}
BoxYs == {Num(100), NotNumeric}
BoxWidths == {Absent, NotNumeric, Num(0), Num(-500), Num(5), Num(500)}
BoxHeights == {Num(500), Num(5), Num(0)}
SearchUploads == {EMPTY, JPEG1, PNG1, GIF1, BMP1, JUNK}

SearchRequests ==
    {[route |-> "search", has_file |-> FALSE, filename |-> <<>>, bytes |-> EMPTY,
      box_x |-> Absent, box_y |-> Num(100), box_width |-> Num(500),
      box_height |-> Num(500)]}
    \cup
    {[route |-> "search", has_file |-> TRUE, filename |-> <<>>, bytes |-> PNG1,
      box_x |-> Absent, box_y |-> Num(100), box_width |-> Num(500),
      box_height |-> Num(500)]}
    \cup
    {[route |-> "search", has_file |-> TRUE, filename |-> <<"room.png">>, bytes |-> b,
      box_x |-> x, box_y |-> y, box_width |-> w, box_height |-> h] :
        b \in SearchUploads, x \in BoxXs, y \in BoxYs, w \in BoxWidths, h \in BoxHeights}

\* search_furniture, lines 164-194: the rejection of the request with a 400,
\* or None when the request is accepted.
search_validate(r) ==
    IF ~r.has_file THEN Some(Error(400, "No image uploaded"))
    ELSE IF r.filename = <<>> THEN Some(Error(400, "No file selected"))
    ELSE IF float_or_zero(r.box_x).raised \/ float_or_zero(r.box_y).raised
            \/ float_required(r.box_width).raised \/ float_required(r.box_height).raised
         THEN Some(Error(400, "Invalid crop box values"))
    ELSE IF r.box_width.tenths <= 0 \/ r.box_height.tenths <= 0
         THEN Some(Error(400, "Crop dimensions must be positive"))
    ELSE IF r.bytes = EMPTY THEN Some(Error(400, "Empty file"))
    ELSE IF detect_image_mime_type(r.bytes) \notin allowed_mimetypes
         THEN Some([status |-> 400,
                    body |-> [error |-> "Unsupported file type",
                              detected |-> detect_image_mime_type(r.bytes)]])
    ELSE None

\* crop_region (lines 202-207): left, upper, right, lower.
crop_region(r) ==
    <<int_of(float_or_zero(r.box_x).value),
      int_of(float_or_zero(r.box_y).value),
      int_of(float_or_zero(r.box_x).value + r.box_width.tenths),
      int_of(float_or_zero(r.box_y).value + r.box_height.tenths)>>

\* The side of the square ImageOps.pad letterboxes the crop to (line 210).
PAD_SIZE == 224

\* Lines 201-210 for an accepted request: PILImage.open raises on bytes PIL
\* cannot identify; ImageOps.pad raises on a crop without area: its aspect
\* ratio divides by the height, and its resize refuses a width of 0 unless
\* the crop already has the height asked for.
search_crop(r) ==
    LET region == crop_region(r)
        width == region[3] - region[1]
        height == region[4] - region[2]
    IN  IF PILFormat(r.bytes) = "" THEN Raise("UnidentifiedImageError")
        ELSE IF height <= 0 THEN Raise("ZeroDivisionError")
        ELSE IF width <= 0 /\ height # PAD_SIZE THEN Raise("ValueError")
        ELSE Return(region)

\* search_furniture up to its search call (lines 164-216).  An exception of
\* the crop or of _get_services is caught by the outer handler (lines
\* 226-228).
SearchReceive ==
    /\ startup = "running"
    /\ pc = "idle"
    /\ \E r \in SearchRequests :
        /\ req' = r
        /\ IF ~IsNone(search_validate(r))
           THEN /\ resp' = Get(search_validate(r))
                /\ pc' = "done"
           ELSE IF search_crop(r).raised \/ get_services(extensions).raised
           THEN /\ resp' = Error(500, "Failed to search furniture")
                /\ pc' = "done"
           ELSE /\ resp' = NoResponse
                /\ pc' = "search"
    /\ search_calls' = <<>>
    /\ UNCHANGED <<appVars, workerVars, genVars, warmVars>>

\* What search_furniture answers after the search call (lines 217-228).
after_search(outcome) ==
    IF outcome.raised /\ outcome.exc = "RuntimeError"
    THEN Error(503, "Search unavailable: embeddings or dataset not loaded")
    ELSE IF outcome.raised THEN Error(500, "Failed to search furniture")
    ELSE [status |-> 200, body |-> [results |-> outcome.value]]

\* The search call of search_furniture and its answer (lines 217-228).
SearchCall ==
    /\ pc = "search"
    /\ \E c \in SearchServiceCall(extensions.search_service, searcher, TOP_K) :
        /\ search_calls' = Append(search_calls, [top_k |-> TOP_K, emb |-> c.emb,
                                                 posts |-> c.posts, outcome |-> c.outcome])
        /\ resp' = after_search(c.outcome)
    /\ pc' = "done"
    /\ UNCHANGED <<appVars, workerVars, req, genVars, warmVars>>

\* The values of top_k search is called with directly.
TopKs == 0..TOP_K

\* LambdaFurnitureSearcher() called on its own (lines 140-200).
BuildSearcher ==
    /\ pc = "new"
    /\ searcher' = LambdaFurnitureSearcher_init(config)
    /\ pc' = "fixture"
    /\ UNCHANGED <<config, startup, extensions, workerVars, req, resp, genVars,
                   searchVars, warmVars>>

\* search called directly on the searcher (lines 202-263).
SearchDirect ==
    /\ pc = "fixture"
    /\ \E k \in TopKs :
        \E c \in SearchServiceCall("LambdaFurnitureSearcher", searcher, k) :
            search_calls' = Append(search_calls,
                [top_k |-> k, emb |-> c.emb, posts |-> c.posts, outcome |-> c.outcome])
    /\ pc' = "searched"
    /\ UNCHANGED <<appVars, workerVars, req, resp, genVars, warmVars>>

\* ------------------------------------------------------------ /api/refine

get_refine_prompt(instruction) ==
    <<"Based on this image, apply the following change:", " ">> \o instruction
    \o <<".", " ",
         "Maintain the exact perspective, lighting, architecture, and all other furniture/decor that is not being changed.",
         " ", "Photorealistic.">>

\* A member of the JSON object posted: absent (or null), a string, or a
\* value that is no string and is truthy (a number, a list).
JAbsent == [kind |-> "absent", value |-> <<>>]
JNumber == [kind |-> "number", value |-> <<>>]
JString(v) == [kind |-> "string", value |-> v]

\* The strings a client can send as image_data: the data URI of a PNG, the
\* bare base64 text of a JPEG, the data URI of a GIF, '', a data URI with
\* nothing after the head, and one whose base64 text is cut short.
RefineUris ==
    {Get(process_image_for_frontend(PNG1)),
     [mime |-> "", b64 |-> b64encode(JPEG1)],
     [mime |-> "image/gif", b64 |-> b64encode(GIF1)],
     [mime |-> "", b64 |-> <<>>],
     [mime |-> "image/png", b64 |-> <<>>],
     [mime |-> "image/png", b64 |-> <<34, 21, 0>>]}

RefineImageData == {JAbsent, JNumber} \cup {JString(u) : u \in RefineUris}

RefinePrompts ==
    {JAbsent, JNumber, JString(<<>>), JString(<<" ", " ">>),
     JString(<<" ", "warmer", " ">>), JString(<<"Add", " ", "plants">>)}

\* The bodies a client can post to /api/refine: one that is no JSON or is
\* not declared as JSON ("malformed"), a JSON value that is no object and is
\* falsy ([], 0, "", false, null: "empty_array"), a JSON value that is no
\* object and is truthy (["x"], "abc", 5: "array"), or a JSON object.
RefineRequests ==
    {[route |-> "refine", json |-> j, image_data |-> JAbsent, prompt |-> JAbsent] :
        j \in {"malformed", "empty_array", "array"}}
    \cup
    {[route |-> "refine", json |-> "object", image_data |-> i, prompt |-> p] :
        i \in RefineImageData, p \in RefinePrompts}

\* Python truthiness of image_data.
image_data_given(r) ==
    \/ r.image_data.kind = "number"
    \/ /\ r.image_data.kind = "string"
       /\ ~(r.image_data.value.mime = "" /\ r.image_data.value.b64 = <<>>)

\* prompt_text = (data.get('prompt') or '').strip()   (line 123)
prompt_text_of(r) ==
    IF r.prompt.kind = "string" THEN strip(r.prompt.value) ELSE <<>>

\* input_bytes = decode_frontend_image(image_data)   (line 131): re.sub
\* raises TypeError on a value that is no string, which the helper turns
\* into None.
input_bytes_of(r) ==
    IF r.image_data.kind = "string"
    THEN decode_frontend_image(Some(r.image_data.value))
    ELSE None

\* refine_image, lines 121-133: the answer given before any remote call, or
\* None when the request is accepted.  get_json(silent=True) is None for a
\* body that is no JSON, and `or {}` makes data {} for it and for every
\* falsy JSON value; a truthy JSON value that is no object has no get (line
\* 122) and a prompt that is no string has no strip (line 123): both are
\* AttributeErrors outside any try.
refine_validate(r) ==
    IF r.json = "array" THEN Some(Unhandled)
    ELSE IF r.prompt.kind = "number" THEN Some(Unhandled)
    ELSE IF ~image_data_given(r) THEN Some(Error(400, "Missing image data"))
    ELSE IF prompt_text_of(r) = <<>> THEN Some(Error(400, "Missing prompt"))
    ELSE IF Falsy(input_bytes_of(r)) THEN Some(Error(400, "Invalid image"))
    ELSE None

\* refine_image up to its remote call (lines 121-135); _get_services is
\* called outside the try.
RefineReceive ==
    /\ startup = "running"
    /\ pc = "idle"
    /\ \E r \in RefineRequests :
        /\ req' = r
        /\ IF ~IsNone(refine_validate(r))
           THEN /\ resp' = Get(refine_validate(r))
                /\ pc' = "done"
           ELSE IF get_services(extensions).raised
           THEN /\ resp' = Unhandled
                /\ pc' = "done"
           ELSE /\ resp' = NoResponse
                /\ pc' = "refine"
    /\ calls' = <<>>
    /\ empty_bytes' = None
    /\ hosted' = NoHosted
    /\ UNCHANGED <<appVars, workerVars, searchVars, warmVars>>

\* What refine_image answers after the call (lines 140-149).
after_refine(outcome) ==
    IF outcome.raised THEN Error(500, "Failed to refine")
    ELSE IF Falsy(outcome.value) THEN Error(500, "Failed to refine")
    ELSE [status |-> 200,
          body |-> [refined_image |-> process_image_for_frontend(Get(outcome.value))]]

\* The generate_image call of refine_image and its answer (lines 137-149).
RefineCall ==
    /\ pc = "refine"
    /\ \E c \in AiCall(extensions.ai_service, Get(input_bytes_of(req)),
                       get_refine_prompt(prompt_text_of(req))) :
        /\ hosted' = c.hosted
        /\ calls' = Append(calls, CallRecord(extensions.ai_service,
                                             Get(input_bytes_of(req)),
                                             get_refine_prompt(prompt_text_of(req)),
                                             c.outcome))
        /\ resp' = after_refine(c.outcome)
    /\ pc' = "done"
    /\ UNCHANGED <<appVars, workerVars, req, empty_bytes, searchVars, warmVars>>

\* ----------------------------------------------------------- the warm ping

\* _warm_interval of the LambdaCLIPService of lambda_search_service.py, the
\* client the searcher of the application holds (line 28).
lambda_search_service_warm_interval == 60

\* _warm_interval of the LambdaCLIPService of clip_service.py (line 28); the
\* warm_async of that class (lines 85-116) is the same text.
clip_service_warm_interval == 20

\* The interval of a client of either module.
WarmIntervals == {lambda_search_service_warm_interval, clip_service_warm_interval}

\* Largest number of warm_async calls in a run.
MaxWarmCalls == 3

\* Largest number of clock steps in a run.
MaxTicks == 4

\* The test of warm_async (line 104): True when the call returns False
\* without starting a thread.  warm_interval is the client's _warm_interval.
warm_async_skips(force, t, last) == ~force /\ (t - last) < warm_interval

\* LambdaCLIPService.warm_async (lines 98-129): a skipped call returns False;
\* any other call starts a daemon thread running _warm and returns True.
\* _last_warm is not written here.
WarmAsync ==
    /\ Len(warm_log) < MaxWarmCalls
    /\ \E force \in BOOLEAN :
        IF warm_async_skips(force, now, last_warm)
        THEN /\ warm_log' = Append(warm_log, [time |-> now, force |-> force,
                                              returned |-> FALSE, ping |-> "none"])
             /\ UNCHANGED warm_threads
        ELSE /\ warm_log' = Append(warm_log, [time |-> now, force |-> force,
                                              returned |-> TRUE, ping |-> "pending"])
             /\ warm_threads' = warm_threads \cup {Len(warm_log) + 1}
    /\ UNCHANGED <<appVars, workerVars, pc, req, resp, genVars, searchVars, now, last_warm,
                   warm_interval>>

\* A mutant of warm_thread_done: a failed ping reaches the caller, whose
\* call no longer counts as having scheduled one.
warm_thread_done_Propagates(entry, result) ==
    [entry EXCEPT !.ping = result, !.returned = (result = "ok")]

\* What the end of _warm leaves of a warm_async call (lines 108-120): the
\* ping succeeded, or its exception was caught and logged; the value the
\* call returned is what it was.
warm_thread_done(entry, result) == [entry EXCEPT !.ping = result]

\* A mutant of last_warm_after: only a ping that succeeded is remembered.
last_warm_after_OnSuccess(result, t, last) == IF result = "ok" THEN t ELSE last

\* _last_warm as the finally clause of _warm leaves it (lines 121-125):
\* time.time(), whether the ping succeeded or raised.
last_warm_after(result, t, last) == t

\* The thread function _warm (lines 107-125) coming to its end: the ping
\* succeeded or failed (the exception is logged), and the finally clause
\* sets _last_warm to the current time.
WarmThreadFinish ==
    /\ \E th \in warm_threads, result \in {"ok", "failed"} :
        /\ warm_threads' = warm_threads \ {th}
        /\ warm_log' = [warm_log EXCEPT ![th] = warm_thread_done(warm_log[th], result)]
        /\ last_warm' = last_warm_after(result, now, last_warm)
    /\ UNCHANGED <<appVars, workerVars, pc, req, resp, genVars, searchVars, now,
                   warm_interval>>

\* Time passes, half an interval at a time.
Tick ==
    /\ now < warm_interval + MaxTicks * (warm_interval \div 2)
    /\ now' = now + (warm_interval \div 2)
    /\ UNCHANGED <<appVars, workerVars, pc, req, resp, genVars, searchVars, last_warm,
                   warm_interval, warm_threads, warm_log>>

\* ------------------------------------------------- the data-URI helpers

\* Largest length of a payload given to the helpers directly.
MaxPayload == 3

\* Byte values the payloads are made of: the signature bytes of PNG and
\* JPEG among them.
CodecBytes == {0, 80, 137, 216, 255}

Payloads == UNION {[1..n -> CodecBytes] : n \in 0..MaxPayload}

\* process_image_for_frontend called on a payload (image_utils.py 43-56).
ProcessImage ==
    /\ pc = "payload"
    /\ resp' = [status |-> 0,
                body |-> [uri |-> process_image_for_frontend(req.bytes)]]
    /\ pc' = "encoded"
    /\ UNCHANGED <<appVars, workerVars, req, genVars, searchVars, warmVars>>

\* decode_frontend_image called on what process_image_for_frontend returned
\* (image_utils.py 59-75).
DecodeImage ==
    /\ pc = "encoded"
    /\ resp' = [status |-> 0,
                body |-> [uri |-> resp.body.uri,
                          decoded |-> decode_frontend_image(resp.body.uri)]]
    /\ pc' = "decoded"
    /\ UNCHANGED <<appVars, workerVars, req, genVars, searchVars, warmVars>>

\* ------------------------------------------- handlers running concurrently

\* Number of request handlers running at the same time (threads of the
\* WSGI server).
NumWorkers == 2

Workers == 1..NumWorkers

\* The locals of a handler: its position, its request, its response and the
\* remote calls it made.
WorkerIdle ==
    [pc |-> "idle", req |-> NoRequest, resp |-> NoResponse, calls |-> <<>>,
     search_calls |-> <<>>]

\* No handler runs beside the one of pc, req and resp.
NoWorkers == workers = <<>>

\* Requests the concurrent handlers are given: a two-step redesign, a
\* redesign of a GIF, a refinement, and a search.
ConcurrentRequests ==
    {[route |-> "redesign", has_file |-> TRUE, filename |-> <<"room.png">>, bytes |-> b,
      style |-> Some(<<"Modern">>), room_type |-> None,
      additional_instructions |-> None, empty_then_generate |-> Some(<<"true">>)] :
        b \in {PNG1, GIF1}}
    \cup
    {[route |-> "refine", json |-> "object",
      image_data |-> JString(Get(process_image_for_frontend(PNG1))),
      prompt |-> JString(<<"Add", " ", "plants">>)]}
    \cup
    {[route |-> "search", has_file |-> TRUE, filename |-> <<"room.png">>, bytes |-> JPEG1,
      box_x |-> Absent, box_y |-> Num(100), box_width |-> Num(500),
      box_height |-> Num(500)]}

\* The locals of a handler once it has validated its request r and is about
\* to make its first remote call, or has answered (routes.py lines 43-72,
\* 121-137, 164-216).
received(r, ext) ==
    LET rejected ==
            IF r.route = "redesign" THEN redesign_validate(r)
            ELSE IF r.route = "refine" THEN refine_validate(r)
            ELSE search_validate(r)
        answered(response) == [WorkerIdle EXCEPT !.pc = "done", !.req = r, !.resp = response]
    IN  IF ~IsNone(rejected) THEN answered(Get(rejected))
        ELSE IF r.route = "redesign"
        THEN IF get_services(ext).raised THEN answered(Unhandled)
             ELSE [WorkerIdle EXCEPT !.req = r,
                                     !.pc = IF empty_then_generate(r) THEN "empty" ELSE "design"]
        ELSE IF r.route = "refine"
        THEN IF get_services(ext).raised THEN answered(Unhandled)
             ELSE [WorkerIdle EXCEPT !.req = r, !.pc = "refine"]
        ELSE IF search_crop(r).raised \/ get_services(ext).raised
        THEN answered(Error(500, "Failed to search furniture"))
        ELSE [WorkerIdle EXCEPT !.req = r, !.pc = "search"]

\* A mutant of empty_image_of: the result of step 1 is kept in one place
\* for all handlers, and a handler finds there the result of the first
\* handler that has one.
empty_image_of_Global(ws, w) ==
    LET holders == {v \in DOMAIN ws : /\ ws[v].calls # <<>>
                                      /\ ~ws[v].calls[1].outcome.raised
                                      /\ ~Falsy(ws[v].calls[1].outcome.value)}
    IN  IF holders = {} THEN None
        ELSE ws[CHOOSE v \in holders : \A u \in holders : v <= u].calls[1].outcome.value

\* redesign_image's local empty_image_bytes of handler w (line 73): the
\* result of its own step 1.
empty_image_of(ws, w) ==
    IF ws[w].calls = <<>> THEN None ELSE ws[w].calls[1].outcome.value

\* The locals of handler w after its next remote call, for each answer the
\* remote service can give: the step of GenerateEmpty, GenerateDesign,
\* RefineCall or SearchCall on the locals of w and the service handles.
after_call(ws, w, ext, s) ==
    LET L == ws[w]
    IN  IF L.pc = "empty"
        THEN {[L EXCEPT !.calls = Append(@, CallRecord(ext.ai_service, L.req.bytes,
                                                       get_empty_room_prompt, c.outcome)),
                        !.pc = after_empty_step(c.outcome).pc,
                        !.resp = after_empty_step(c.outcome).resp] :
                c \in AiCall(ext.ai_service, L.req.bytes, get_empty_room_prompt)}
        ELSE IF L.pc = "design"
        THEN {[L EXCEPT !.calls = Append(@, CallRecord(ext.ai_service,
                                             design_input(L.req, empty_image_of(ws, w)),
                                             design_prompt_of(L.req), c.outcome)),
                        !.pc = "done",
                        !.resp = after_design_step(L.req, empty_image_of(ws, w), c.outcome)] :
                c \in AiCall(ext.ai_service, design_input(L.req, empty_image_of(ws, w)),
                             design_prompt_of(L.req))}
        ELSE IF L.pc = "refine"
        THEN {[L EXCEPT !.calls = Append(@, CallRecord(ext.ai_service,
                                             Get(input_bytes_of(L.req)),
                                             get_refine_prompt(prompt_text_of(L.req)),
                                             c.outcome)),
                        !.pc = "done",
                        !.resp = after_refine(c.outcome)] :
                c \in AiCall(ext.ai_service, Get(input_bytes_of(L.req)),
                             get_refine_prompt(prompt_text_of(L.req)))}
        ELSE {[L EXCEPT !.search_calls = Append(@, [top_k |-> TOP_K, emb |-> c.emb,
                                                    posts |-> c.posts,
                                                    outcome |-> c.outcome]),
                        !.pc = "done",
                        !.resp = after_search(c.outcome)] :
                c \in SearchServiceCall(ext.search_service, s, TOP_K)}

\* A handler takes a request and validates it.
WorkerReceive ==
    /\ startup = "running"
    /\ \E w \in DOMAIN workers, r \in ConcurrentRequests :
        /\ workers[w].pc = "idle"
        /\ workers' = [workers EXCEPT ![w] = received(r, extensions)]
    /\ UNCHANGED <<appVars, pc, req, resp, genVars, searchVars, warmVars>>

\* Uploads to /api/redesign with what the client declares about them: the
\* filename and the Content-Type of the 'file' part.  No line of the routes
\* or of the services reads the declared type.
DeclaredRequests ==
    {[route |-> "redesign", has_file |-> TRUE, filename |-> f, content_type |-> ct,
      bytes |-> b, style |-> None, room_type |-> None,
      additional_instructions |-> None, empty_then_generate |-> None] :
        b \in {PNG1, GIF1},
        f \in {<<"room.png">>, <<"room.gif">>},
        ct \in {"image/png", "image/gif"}}

\* A handler takes an upload with declared metadata and validates it.
WorkerReceiveDeclared ==
    /\ startup = "running"
    /\ \E w \in DOMAIN workers, r \in DeclaredRequests :
        /\ workers[w].pc = "idle"
        /\ workers' = [workers EXCEPT ![w] = received(r, extensions)]
    /\ UNCHANGED <<appVars, pc, req, resp, genVars, searchVars, warmVars>>

\* A handler makes its next remote call and goes on with the answer.
WorkerCall ==
    /\ \E w \in DOMAIN workers :
        /\ workers[w].pc \in {"empty", "design", "refine", "search"}
        /\ \E n \in after_call(workers, w, extensions, searcher) :
              workers' = [workers EXCEPT ![w] = n]
    /\ UNCHANGED <<appVars, pc, req, resp, genVars, searchVars, warmVars>>

\* A handler has sent its response; its locals are gone.
WorkerFinish ==
    /\ \E w \in DOMAIN workers :
        /\ workers[w].pc = "done"
        /\ workers' = [workers EXCEPT ![w] = WorkerIdle]
    /\ UNCHANGED <<appVars, pc, req, resp, genVars, searchVars, warmVars>>

\* ---------------------------------------------------------- specifications

\* The Config class as config.py defines it, with GOOGLE_API_KEY in the
\* environment: the key is set, LAMBDA_CLIP_URL has its default, and there
\* is neither a CSV_FILE nor an EMBEDDINGS_FILE attribute.
DefaultConfig ==
    [GOOGLE_API_KEY |-> TRUE, LAMBDA_CLIP_URL |-> TRUE, catalog_files |-> "undefined",
     catalog |-> NoCatalog]

\* A Config that also carries CSV_FILE and EMBEDDINGS_FILE, the attributes
\* LambdaFurnitureSearcher.__init__ reads (lambda_search_service.py
\* 156-178), with both files in place: the only configuration create_app
\* completes with a loaded searcher.
CatalogConfig ==
    [DefaultConfig EXCEPT !.catalog_files = "ok", !.catalog = CatalogB]

\* No request is being handled.
IdleRequest ==
    /\ pc = "idle"
    /\ req = NoRequest
    /\ resp = NoResponse
    /\ calls = <<>>
    /\ hosted = NoHosted
    /\ empty_bytes = None
    /\ search_calls = <<>>

\* A CLIP client of either module just constructed (lines 23-28 of both):
\* _last_warm is 0.0, _warm_interval is the module's, and the clock
\* time.time() reads is more than one interval past _last_warm.
FreshClient ==
    /\ warm_interval \in WarmIntervals
    /\ now = warm_interval
    /\ last_warm = 0
    /\ warm_threads = {}
    /\ warm_log = <<>>

\* The CLIP client of the application's searcher just constructed
\* (lambda_search_service.py 23-28, 142).
FreshWarm ==
    /\ FreshClient
    /\ warm_interval = lambda_search_service_warm_interval

\* The redesign workflow: an application that started (create_app with
\* CatalogConfig, or the test fixture with Mock services and the Config of
\* config.py) serving
\* /api/redesign requests one after the other.
InitRedesign ==
    /\ startup = "running"
    /\ extensions \in {[ai_service |-> "GeminiService",
                        search_service |-> "LambdaFurnitureSearcher"],
                       [ai_service |-> "Mock", search_service |-> "Mock"]}
    /\ config = IF extensions.ai_service = "Mock" THEN DefaultConfig ELSE CatalogConfig
    /\ searcher = IF extensions.ai_service = "Mock" THEN NoSearcher
                  ELSE LambdaFurnitureSearcher_init(CatalogConfig)
    /\ IdleRequest
    /\ FreshWarm
    /\ NoWorkers

NextRedesign == RedesignReceive \/ GenerateEmpty \/ GenerateDesign \/ Finish

SpecRedesign == InitRedesign /\ [][NextRedesign]_vars

\* Startup and furniture search: a process starting with any configuration,
\* then serving /api/search-furniture requests one after the other.
InitSearch ==
    /\ config \in Configs
    /\ startup = "starting"
    /\ extensions = [ai_service |-> "none", search_service |-> "none"]
    /\ searcher = NoSearcher
    /\ IdleRequest
    /\ FreshWarm
    /\ NoWorkers

NextSearch == CreateApp \/ FixtureApp \/ SearchReceive \/ SearchCall \/ Finish

SpecSearch == InitSearch /\ [][NextSearch]_vars

\* The warm ping of a CLIP client, that of the running application's
\* searcher or one of clip_service.py built beside it: warm_async calls,
\* warm threads finishing, and time passing, in any order.
InitWarm ==
    /\ config = CatalogConfig
    /\ startup = "running"
    /\ extensions = [ai_service |-> "GeminiService",
                     search_service |-> "LambdaFurnitureSearcher"]
    /\ searcher = LambdaFurnitureSearcher_init(CatalogConfig)
    /\ IdleRequest
    /\ FreshClient
    /\ NoWorkers

NextWarm == WarmAsync \/ WarmThreadFinish \/ Tick

SpecWarm == InitWarm /\ [][NextWarm]_vars

\* The three routes together: a started application (as for the redesign
\* workflow) serving /api/redesign, /api/refine and /api/search-furniture
\* requests one after the other.
NextRoutes ==
    \/ RedesignReceive \/ GenerateEmpty \/ GenerateDesign
    \/ RefineReceive \/ RefineCall
    \/ SearchReceive \/ SearchCall
    \/ Finish

SpecRoutes == InitRedesign /\ [][NextRoutes]_vars

\* Handlers running at the same time in a started application, their steps
\* interleaved in any order.
InitConcurrent ==
    /\ startup = "running"
    /\ extensions \in {[ai_service |-> "GeminiService",
                        search_service |-> "LambdaFurnitureSearcher"],
                       [ai_service |-> "Mock", search_service |-> "Mock"]}
    /\ config = IF extensions.ai_service = "Mock" THEN DefaultConfig ELSE CatalogConfig
    /\ searcher = IF extensions.ai_service = "Mock" THEN NoSearcher
                  ELSE LambdaFurnitureSearcher_init(CatalogConfig)
    /\ IdleRequest
    /\ FreshWarm
    /\ workers = [w \in Workers |-> WorkerIdle]

NextConcurrent == WorkerReceive \/ WorkerCall \/ WorkerFinish

SpecConcurrent == InitConcurrent /\ [][NextConcurrent]_vars

\* Handlers running at the same time on uploads that come with declared
\* metadata.
NextDeclared == WorkerReceiveDeclared \/ WorkerCall \/ WorkerFinish

SpecDeclared == InitConcurrent /\ [][NextDeclared]_vars

\* The refine workflow: a started application (as for the redesign
\* workflow) serving /api/refine requests one after the other.
NextRefine == RefineReceive \/ RefineCall \/ Finish

SpecRefine == InitRedesign /\ [][NextRefine]_vars

\* Byte values the inputs of the format detection are made of: the
\* signature bytes of JPEG, PNG, WebP, GIF and BMP among them.
DetectBytes == {0, 66, 71, 73, 77, 80, 82, 137, 216, 255}

DetectInputs == UNION {[1..n -> DetectBytes] : n \in 0..MaxPayload}

\* detect_image_mime_type called on a byte string (image_utils.py 11-40).
DetectMime ==
    /\ pc = "bytes"
    /\ resp' = [status |-> 0, body |-> [detected |-> detect_image_mime_type_call(req.bytes)]]
    /\ pc' = "detected"
    /\ UNCHANGED <<appVars, workerVars, req, genVars, searchVars, warmVars>>

\* detect_image_mime_type called on a byte string, as
\* tests/utils/test_image_utils.py does.
InitDetect ==
    /\ config = CatalogConfig
    /\ startup = "running"
    /\ extensions = [ai_service |-> "GeminiService",
                     search_service |-> "LambdaFurnitureSearcher"]
    /\ searcher = LambdaFurnitureSearcher_init(CatalogConfig)
    /\ pc = "bytes"
    /\ req \in {[route |-> "helpers", bytes |-> b] : b \in DetectInputs}
    /\ resp = NoResponse
    /\ calls = <<>>
    /\ hosted = NoHosted
    /\ empty_bytes = None
    /\ search_calls = <<>>
    /\ FreshWarm
    /\ NoWorkers

NextDetect == DetectMime

SpecDetect == InitDetect /\ [][NextDetect]_vars

\* The embedding client on its own, with and without an endpoint URL.
InitEmbedding ==
    /\ config \in {CatalogConfig, [CatalogConfig EXCEPT !.LAMBDA_CLIP_URL = FALSE]}
    /\ startup = "running"
    /\ extensions = [ai_service |-> "GeminiService",
                     search_service |-> "LambdaFurnitureSearcher"]
    /\ searcher = LambdaFurnitureSearcher_init(config)
    /\ pc = "embed"
    /\ req = NoRequest
    /\ resp = NoResponse
    /\ calls = <<>>
    /\ hosted = NoHosted
    /\ empty_bytes = None
    /\ search_calls = <<>>
    /\ FreshWarm
    /\ NoWorkers

NextEmbedding == GetImageEmbedding

SpecEmbedding == InitEmbedding /\ [][NextEmbedding]_vars

\* search on its own, on a searcher loaded by __init__ and on one whose
\* embeddings table has a row that cannot be looked up.
InitResults ==
    /\ config = [CatalogConfig EXCEPT !.catalog = CatalogA]
    /\ startup = "running"
    /\ extensions = [ai_service |-> "GeminiService",
                     search_service |-> "LambdaFurnitureSearcher"]
    /\ searcher \in {LambdaFurnitureSearcher_init(config),
                     SearcherOf(CatalogC, LambdaCLIPService_init(config))}
    /\ pc = "fixture"
    /\ req = NoRequest
    /\ resp = NoResponse
    /\ calls = <<>>
    /\ hosted = NoHosted
    /\ empty_bytes = None
    /\ search_calls = <<>>
    /\ FreshWarm
    /\ NoWorkers

NextResults == SearchDirect

SpecResults == InitResults /\ [][NextResults]_vars

\* The configurations a searcher is built from on its own: those of a
\* process, and a catalog whose CSV loads and whose pickle does not.
SearcherConfigs ==
    Configs \cup
    {[GOOGLE_API_KEY |-> TRUE, LAMBDA_CLIP_URL |-> u, catalog_files |-> "pkl_unreadable",
      catalog |-> CatalogB] : u \in BOOLEAN}

\* A searcher is built and then asked to search, the application aside.
InitSearcher ==
    /\ config \in SearcherConfigs
    /\ startup = "running"
    /\ extensions = [ai_service |-> "GeminiService",
                     search_service |-> "LambdaFurnitureSearcher"]
    /\ searcher = NoSearcher
    /\ pc = "new"
    /\ req = NoRequest
    /\ resp = NoResponse
    /\ calls = <<>>
    /\ hosted = NoHosted
    /\ empty_bytes = None
    /\ search_calls = <<>>
    /\ FreshWarm
    /\ NoWorkers

NextSearcher == BuildSearcher \/ SearchDirect

SpecSearcher == InitSearcher /\ [][NextSearcher]_vars

\* The two helpers of backend/utils/image_utils.py called one after the
\* other on a payload, as tests/utils/test_image_utils.py does.
InitCodec ==
    /\ config = CatalogConfig
    /\ startup = "running"
    /\ extensions = [ai_service |-> "GeminiService",
                     search_service |-> "LambdaFurnitureSearcher"]
    /\ searcher = LambdaFurnitureSearcher_init(CatalogConfig)
    /\ pc = "payload"
    /\ req \in {[route |-> "helpers", bytes |-> b] : b \in Payloads}
    /\ resp = NoResponse
    /\ calls = <<>>
    /\ hosted = NoHosted
    /\ empty_bytes = None
    /\ search_calls = <<>>
    /\ FreshWarm
    /\ NoWorkers

NextCodec == ProcessImage \/ DecodeImage

SpecCodec == InitCodec /\ [][NextCodec]_vars

\* ================================================================ claims

\* The step-1 call of the request returned no image (None or b'').
ReturnedNoImage(c) == ~c.outcome.raised /\ Falsy(c.outcome.value)

EmptyMode == req.route = "redesign" /\ empty_then_generate(req)
SingleMode == req.route = "redesign" /\ ~empty_then_generate(req)

\* C1: in the empty-then-generate workflow, when the first (empty-room) call
\* returns no image the request ends with HTTP 500 'Failed to empty room' and
\* generate_image is not called a second time.
C1_EmptyFailureEndsRequest ==
    (EmptyMode /\ Len(calls) >= 1
        /\ calls[1].prompt = get_empty_room_prompt /\ ReturnedNoImage(calls[1]))
    => /\ Len(calls) = 1
       /\ pc = "done"
       /\ resp = Error(500, "Failed to empty room")

C1_Witness ==
    /\ EmptyMode /\ extensions.ai_service = "GeminiService"
    /\ Len(calls) = 1 /\ ReturnedNoImage(calls[1])
    /\ hosted.kind = "response" /\ hosted.candidates = 1 /\ Len(hosted.parts) = 1
    /\ resp.status = 500

\* C2: a step that returns no image ends the request: it is the last call,
\* the response is a 500 whose body holds only an error (no image), and the
\* error names the step: 'Failed to empty room' for the emptying step,
\* 'Failed to design room' for the furnishing step.
C2_StepFailureIsTerminalAndNamed ==
    \A i \in 1..Len(calls) :
        ReturnedNoImage(calls[i])
        => /\ i = Len(calls)
           /\ pc = "done"
           /\ resp.status = 500
           /\ DOMAIN resp.body = {"error"}
           /\ resp.body.error = IF calls[i].prompt = get_empty_room_prompt
                                THEN "Failed to empty room"
                                ELSE "Failed to design room"

C2_Witness ==
    /\ EmptyMode /\ Len(calls) = 2
    /\ ~ReturnedNoImage(calls[1]) /\ ReturnedNoImage(calls[2])
    /\ resp = Error(500, "Failed to design room")

\* The style and room type the client asked for, when it gave one.
Asked(o) == ~IsNone(o) /\ strip(Get(o)) # <<>>

PromptNamesRequest(prompt, r) ==
    /\ Asked(r.style) => Contains(prompt, strip(Get(r.style)))
    /\ Asked(r.room_type) => Contains(prompt, strip(Get(r.room_type)))
    /\ ~Asked(r.style) /\ IsNone(r.style) => Contains(prompt, <<"Nordic">>)
    /\ IsNone(r.room_type) => Contains(prompt, <<"Living", " ", "Room">>)

DataUri(b) == Some([mime |-> detect_image_mime_type(b), b64 |-> b64encode(b)])

\* C3: in the single-step workflow an accepted upload leads to exactly one
\* generate_image call, on the uploaded bytes, with a prompt that contains
\* the requested style and room type; on success empty_image and
\* original_image are both the data URI of the upload.
C3_SingleStepOneCall ==
    SingleMode
    => /\ Len(calls) <= 1
       /\ (pc = "done" /\ IsNone(redesign_validate(req)))
          => /\ Len(calls) = 1
             /\ calls[1].input = req.bytes
             /\ PromptNamesRequest(calls[1].prompt, req)
             /\ resp.status = 200
                => /\ resp.body.empty_image = resp.body.original_image
                   /\ resp.body.original_image = DataUri(req.bytes)

C3_Witness ==
    /\ SingleMode /\ pc = "done" /\ resp.status = 200
    /\ req.style = Some(<<"Modern">>) /\ req.room_type = Some(<<"Bedroom">>)
    /\ Len(calls) = 1

\* C4: a successful empty-then-generate request makes exactly two calls: the
\* first on the upload with the empty-room prompt, the second on the output
\* of the first with the design prompt; empty_image is the emptied room,
\* original_image the upload and final_image the output of the second call.
C4_TwoStepOrder ==
    EmptyMode
    => /\ Len(calls) <= 2
       /\ (pc = "done" /\ resp.status = 200)
          => /\ Len(calls) = 2
             /\ calls[1].input = req.bytes
             /\ calls[1].prompt = get_empty_room_prompt
             /\ calls[2].input = Get(calls[1].outcome.value)
             /\ calls[2].prompt # get_empty_room_prompt
             /\ PromptNamesRequest(calls[2].prompt, req)
             /\ resp.body.original_image = DataUri(req.bytes)
             /\ resp.body.empty_image = DataUri(Get(calls[1].outcome.value))
             /\ resp.body.final_image = DataUri(Get(calls[2].outcome.value))

C4_Witness ==
    /\ EmptyMode /\ pc = "done" /\ resp.status = 200
    /\ extensions.ai_service = "GeminiService"
    /\ Len(calls) = 2
    /\ calls[1].outcome.value # calls[2].outcome.value

\* The parts of the hosted model's answer that carry inline data.
InlineParts(h) == {i \in 1..Len(h.parts) : ~IsNone(h.parts[i])}

\* C5: GeminiService.generate_image never raises: whatever the hosted model
\* does, the call returns the inline data of the first part that has inline
\* data, and None when there is no such part, no candidate, or an exception.
C5_GenerateImageNeverRaises ==
    (extensions.ai_service = "GeminiService" /\ Len(calls) >= 1)
    => LET o == calls[Len(calls)].outcome
       IN  /\ ~o.raised
           /\ IF hosted.kind = "response" /\ hosted.candidates = 1
                 /\ InlineParts(hosted) # {}
              THEN o.value =
                     hosted.parts[CHOOSE i \in InlineParts(hosted) :
                                    \A j \in InlineParts(hosted) : i <= j]
              ELSE o.value = None

C5_Witness ==
    /\ extensions.ai_service = "GeminiService" /\ Len(calls) >= 1
    /\ hosted.kind = "response" /\ hosted.candidates = 1
    /\ Len(hosted.parts) = 2
    /\ IsNone(hosted.parts[1]) /\ ~IsNone(hosted.parts[2])
    /\ calls[Len(calls)].outcome.value = hosted.parts[2]

\* C6 (as claimed): every non-empty upload whose format is not JPEG, PNG or
\* WebP - a format the detector does not map, or bytes that are no image -
\* is rejected with a 400 before any generate_image call.
C6_OtherFormatsRejected ==
    (req.route = "redesign" /\ req.has_file /\ req.filename # <<>>
        /\ req.bytes # EMPTY /\ PILFormat(req.bytes) \notin {"JPEG", "PNG", "WEBP"})
    => resp.status = 400 /\ calls = <<>>

\* The search service is the searcher built by create_app, and its catalog
\* or its embedding client is missing.
SearchUninitialized ==
    /\ extensions.search_service = "LambdaFurnitureSearcher"
    /\ (IsNone(searcher.df_data) \/ IsNone(searcher.clip_service))

\* The embedding step of a search fails: no URL is configured, the request
\* fails, or the payload holds no vector of EMBEDDING_DIM entries.
EmbeddingStepFails(cfg, e) ==
    \/ ~cfg.LAMBDA_CLIP_URL
    \/ e.kind # "json"
    \/ ~e.is_dict
    \/ ~e.has_key
    \/ e.shape \notin {"list", "nested", "dict"}
    \/ e.length # EMBEDDING_DIM
    \/ e.entries \in {"text", "null"}

\* C7: search() of the searcher built at startup raises exactly when the
\* catalog or the embedding client failed to initialize, and then a
\* RuntimeError; with both initialized it never raises, and a failure of the
\* embedding step (a 256-length vector, a transport error) returns [].
C7_SearchRaisesOnlyUninitialized ==
    \A i \in 1..Len(search_calls) :
        extensions.search_service = "LambdaFurnitureSearcher"
        => LET o == search_calls[i].outcome
           IN  /\ o.raised <=> config.catalog_files # "ok"
               /\ o.raised <=> SearchUninitialized
               /\ o.raised => o.exc = "RuntimeError"
               /\ (~o.raised /\ EmbeddingStepFails(config, search_calls[i].emb))
                  => o.value = <<>>

C7_Witness ==
    /\ extensions.search_service = "LambdaFurnitureSearcher"
    /\ Len(search_calls) = 1
    /\ search_calls[1].emb.kind = "json" /\ search_calls[1].emb.has_key
    /\ search_calls[1].emb.shape = "list"
    /\ search_calls[1].emb.length = EMBEDDING_DIM \div 2
    /\ search_calls[1].posts = 1
    /\ search_calls[1].outcome = Return(<<>>)
    /\ resp.status = 200

\* C8 (as claimed): with the search service uninitialized, every request
\* that passes the input validation of /api/search-furniture - here even
\* with a crop that has an area - is answered 503 'Search unavailable',
\* never 200 and never the generic 500.
C8_UninitializedGets503 ==
    (req.route = "search" /\ pc = "done" /\ SearchUninitialized
        /\ IsNone(search_validate(req))
        /\ crop_region(req)[3] > crop_region(req)[1]
        /\ crop_region(req)[4] > crop_region(req)[2])
    => resp = Error(503, "Search unavailable: embeddings or dataset not loaded")

\* C9 (as claimed): create_app fails with the ValueError of Config.validate
\* when the API key is absent, and completes whenever the key is present,
\* whatever the search configuration.
C9_StartupOnlyNeedsApiKey ==
    (startup # "starting" /\ extensions.ai_service # "Mock")
    => /\ ~config.GOOGLE_API_KEY => startup = "ValueError"
       /\ config.GOOGLE_API_KEY => startup = "running"

\* C10 (as claimed): of the warm requests started by calls with force=False,
\* no two are started less than warm_interval apart.
C10_OneWarmPerInterval ==
    \A i, j \in 1..Len(warm_log) :
        (i < j /\ ~warm_log[i].force /\ ~warm_log[j].force
            /\ warm_log[i].returned /\ warm_log[j].returned)
        => warm_log[j].time - warm_log[i].time >= warm_interval

\* The fields of the CLIP client as the warm threads left them.
ClipClient == [url |-> config.LAMBDA_CLIP_URL, last_warm |-> last_warm]

\* C11: warm_async is fire-and-forget: a call that scheduled a ping has
\* returned True while the ping is still pending, and keeps that value when
\* the ping succeeds or fails; a failed ping leaves the request path, the
\* searcher and the outcome of every get_image_embedding call as they were.
C11_WarmIsFireAndForget ==
    /\ \A i \in 1..Len(warm_log) :
          /\ warm_log[i].returned <=> warm_log[i].ping # "none"
          /\ warm_log[i].ping = "pending" <=> i \in warm_threads
    /\ pc = "idle" /\ resp = NoResponse
    /\ searcher = LambdaFurnitureSearcher_init(config)
    /\ \A e \in EmbBehaviours :
          get_image_embedding(ClipClient, e)
            = get_image_embedding(LambdaCLIPService_init(config), e)

C11_Witness ==
    \E i, j \in 1..Len(warm_log) :
        /\ warm_log[i].ping = "failed" /\ warm_log[i].returned
        /\ warm_log[j].ping = "pending" /\ warm_log[j].returned
        /\ last_warm > 0

\* Largest top_k a search is asked for.
MaxTopK == 5

\* The scores of a result list never go up along the list.
NonIncreasing(results) ==
    \A i \in 1..(Len(results) - 1) : results[i].score >= results[i + 1].score

\* A result list search may return for top_k = k.
WithinTopK(results, k) == Len(results) <= k /\ NonIncreasing(results)

\* C12: search(image, top_k=k) returns at most k results, in an order in
\* which the scores never increase: for the calls the route made, and for
\* every k up to MaxTopK and every answer of the embedding endpoint on the
\* searcher the application started with.
C12_AtMostKNonIncreasing ==
    extensions.search_service = "LambdaFurnitureSearcher"
    => /\ \A i \in 1..Len(search_calls) :
             ~search_calls[i].outcome.raised
             => WithinTopK(search_calls[i].outcome.value, search_calls[i].top_k)
       /\ (pc = "search" /\ ~SearchUninitialized)
          => \A k \in 0..MaxTopK, e \in EmbBehaviours :
                WithinTopK(search(searcher, k, e).value, k)

\* A search on the catalog of five embeddings: the four best rows are taken,
\* the one without a product record is left out, three results come back in
\* strictly decreasing order of score.
C12_Witness ==
    /\ extensions.search_service = "LambdaFurnitureSearcher"
    /\ config.catalog = CatalogA
    /\ Len(search_calls) = 1
    /\ ~search_calls[1].outcome.raised
    /\ Len(search_calls[1].outcome.value) = 3
    /\ search_calls[1].outcome.value[1].score > search_calls[1].outcome.value[2].score
    /\ search_calls[1].outcome.value[2].score > search_calls[1].outcome.value[3].score
    /\ Len(search(searcher, 1, search_calls[1].emb).value) = 1

\* A search request that names an image file, so that the crop box is looked at.
NamesImage == req.route = "search" /\ req.has_file /\ req.filename # <<>>

\* The two rejections of a crop box.
InvalidBox == Error(400, "Invalid crop box values")
NotPositiveBox == Error(400, "Crop dimensions must be positive")

\* A box value that is there and is a number.
IsNumber(v) == v.kind = "num"

\* C13 (as claimed): every missing or non-numeric box value - box_x and
\* box_y included - is answered 400 'Invalid crop box values'.
C13_EveryMissingBoxValueRejected ==
    (NamesImage
        /\ \E v \in {req.box_x, req.box_y, req.box_width, req.box_height} : ~IsNumber(v))
    => resp = InvalidBox

\* C13 (amended): a non-numeric box value, or a missing box_width or
\* box_height, is answered 400 'Invalid crop box values'; a missing box_x or
\* box_y counts as 0 and is not rejected for that; a box of numbers whose
\* width or height is zero or negative is answered 400 'Crop dimensions must
\* be positive'.  Both rejections come whatever the uploaded bytes are, and
\* without a search call.
C13_CropBoxRejected ==
    NamesImage
    => LET unusable ==
               \/ \E v \in {req.box_x, req.box_y, req.box_width, req.box_height} :
                      v.kind = "text"
               \/ req.box_width.kind = "absent" \/ req.box_height.kind = "absent"
           not_positive == req.box_width.tenths <= 0 \/ req.box_height.tenths <= 0
       IN  /\ unusable => (pc = "done" /\ resp = InvalidBox /\ search_calls = <<>>)
           /\ (~unusable /\ not_positive)
              => (pc = "done" /\ resp = NotPositiveBox /\ search_calls = <<>>)
           /\ (~unusable /\ ~not_positive) => resp \notin {InvalidBox, NotPositiveBox}

\* A negative width on an upload that is empty: the answer is about the box,
\* the bytes were not looked at.
C13_Witness ==
    /\ NamesImage /\ pc = "done"
    /\ req.box_x = Absent /\ IsNumber(req.box_y)
    /\ req.box_width = Num(-500) /\ req.bytes = EMPTY
    /\ resp = NotPositiveBox
    /\ search_calls = <<>>

\* C20 (as claimed): decode_frontend_image(process_image_for_frontend(b))
\* is b for every payload b, the empty one included.
C20_RoundTripEveryPayload ==
    pc = "decoded" => resp.body.decoded = Some(req.bytes)

\* C20 (amended): decode_frontend_image(process_image_for_frontend(b)) is b
\* for every payload b that is not empty; for the empty payload
\* process_image_for_frontend gives None, and decode_frontend_image of None
\* is None, not b''.
C20_RoundTripNonEmpty ==
    pc = "decoded"
    => IF req.bytes = EMPTY
       THEN resp.body.uri = None /\ resp.body.decoded = None
       ELSE /\ resp.body.uri = Some([mime |-> detect_image_mime_type(req.bytes),
                                     b64 |-> b64encode(req.bytes)])
            /\ resp.body.decoded = Some(req.bytes)

\* A payload of two bytes, whose base64 text ends in one '=', came back.
C20_Witness ==
    /\ pc = "decoded"
    /\ req.bytes = <<137, 80>>
    /\ Get(resp.body.uri).mime = "image/png"
    /\ Get(resp.body.uri).b64 = <<34, 21, 0, 64>>
    /\ resp.body.decoded = Some(<<137, 80>>)

\* The prompt of the request is missing, or blank once trimmed.
PromptBlank == prompt_text_of(req) = <<>> /\ req.prompt.kind # "number"

\* C14 (as claimed): /api/refine answers, in this order, 400 'Missing image
\* data' when image_data is missing, 400 'Missing prompt' when the prompt is
\* missing or blank after trimming, 400 'Invalid image' when image_data does
\* not decode to bytes that are not empty, and 400 when the body is no JSON;
\* generate_image is called in none of these cases.
C14_RefineRejectsInOrder ==
    (req.route = "refine" /\ req.json # "array")
    => /\ ~image_data_given(req)
          => resp = Error(400, "Missing image data") /\ calls = <<>>
       /\ (image_data_given(req) /\ PromptBlank)
          => resp = Error(400, "Missing prompt") /\ calls = <<>>
       /\ (image_data_given(req) /\ ~PromptBlank /\ req.prompt.kind = "string"
             /\ Falsy(input_bytes_of(req)))
          => resp = Error(400, "Invalid image") /\ calls = <<>>
       /\ req.json = "malformed" => resp.status = 400 /\ calls = <<>>

\* C15: /api/redesign rejects client input errors with a 400 and without a
\* generate_image call, in this order: no 'file' part ('No file uploaded'),
\* an empty filename ('No file selected'), empty content ('Empty file'), a
\* detected MIME type outside the allowed ones ('Unsupported file type').
C15_RedesignRejectsInOrder ==
    req.route = "redesign"
    => LET rejected(message) ==
               /\ pc = "done" /\ resp.status = 400
               /\ resp.body.error = message /\ calls = <<>>
       IN  IF ~req.has_file THEN rejected("No file uploaded")
           ELSE IF req.filename = <<>> THEN rejected("No file selected")
           ELSE IF req.bytes = EMPTY THEN rejected("Empty file")
           ELSE IF detect_image_mime_type(req.bytes) \notin allowed_mimetypes
           THEN rejected("Unsupported file type")
           ELSE resp.status # 400

\* A named GIF passes the first three checks and is turned away by the
\* fourth, before any call.
C15_Witness ==
    /\ req.route = "redesign" /\ pc = "done" /\ calls = <<>>
    /\ req.has_file /\ req.filename # <<>> /\ req.bytes = GIF1
    /\ resp.status = 400
    /\ resp.body.error = "Unsupported file type"
    /\ resp.body.detected = "image/gif"

\* C16 (as claimed): when the embedding endpoint errors or answers with a
\* payload that cannot be used, the caller of /api/search-furniture gets an
\* error response with the generic failure message.
C16_UpstreamFailureSurfaced ==
    (req.route = "search" /\ pc = "done" /\ Len(search_calls) = 1
        /\ extensions.search_service = "LambdaFurnitureSearcher"
        /\ ~SearchUninitialized
        /\ search_calls[1].posts = 1
        /\ EmbeddingStepFails(config, search_calls[1].emb))
    => resp = Error(500, "Failed to search furniture")

\* The outcome of the last remote call made for the request.
LastOutcome ==
    IF req.route = "search" THEN search_calls[Len(search_calls)].outcome
    ELSE calls[Len(calls)].outcome

\* What the handler of the request answers to the outcome o of its last call.
AnswerAfter(o) ==
    IF req.route = "search" THEN after_search(o)
    ELSE IF req.route = "refine" THEN after_refine(o)
    ELSE IF empty_then_generate(req) /\ Len(calls) = 1 THEN after_empty_step(o).resp
    ELSE after_design_step(req, empty_bytes, o)

\* Message texts an upstream exception can carry.
ExceptionTexts ==
    {"", "API Error: key AIza-1 rejected", "/data/emb.pkl not loaded", "Unexpected error"}

\* The bodies of the failures the routes report.
FixedFailures ==
    {[error |-> s] : s \in {"Failed to empty room", "Failed to design room",
                            "Failed to refine", "Failed to search furniture",
                            "Search unavailable: embeddings or dataset not loaded"}}

\* C17 (as claimed): the answer to a request whose upstream call raised is
\* the same whatever the message text of the exception, and the body of
\* every 5xx answer is one of the five fixed failure messages.
C17_NoExceptionTextLeaks ==
    (req.route \in {"redesign", "refine", "search"} /\ pc = "done")
    => /\ (Len(calls) + Len(search_calls) > 0 /\ LastOutcome.raised)
          => \A m \in ExceptionTexts : AnswerAfter([LastOutcome EXCEPT !.msg = m]) = resp
       /\ resp.status >= 500 => resp.body \in FixedFailures

\* A generate_image call that gave no image: it raised, or returned None or b''.
CallFailed(c) == c.outcome.raised \/ Falsy(c.outcome.value)

\* C18: no remote call is made again: /api/refine and single-step
\* /api/redesign call generate_image at most once, empty-then-generate at
\* most twice - once with the empty-room prompt, then once with the design
\* prompt; /api/search-furniture calls search at most once and search sends
\* at most one request to the embedding endpoint; a call that failed is the
\* last call of its request.
C18_NoRetries ==
    /\ req.route = "refine" => Len(calls) <= 1 /\ search_calls = <<>>
    /\ SingleMode => Len(calls) <= 1 /\ search_calls = <<>>
    /\ EmptyMode
       => /\ Len(calls) <= 2 /\ search_calls = <<>>
          /\ Len(calls) >= 1 => calls[1].prompt = get_empty_room_prompt
          /\ Len(calls) = 2 => calls[2].prompt = design_prompt_of(req)
    /\ req.route = "search"
       => /\ Len(search_calls) <= 1 /\ calls = <<>>
          /\ \A i \in 1..Len(search_calls) : search_calls[i].posts <= 1
    /\ \A i \in 1..Len(calls) : CallFailed(calls[i]) => i = Len(calls) /\ pc = "done"

\* A search whose one request to the embedding endpoint failed in transport
\* has ended, with that one request made.
C18_Witness ==
    /\ req.route = "search" /\ pc = "done"
    /\ extensions.search_service = "LambdaFurnitureSearcher"
    /\ Len(search_calls) = 1
    /\ search_calls[1].emb.kind = "transport"
    /\ search_calls[1].posts = 1
    /\ resp.status = 200


\* The locals of handler w alone, every other handler being idle.
Alone(w) == [v \in DOMAIN workers |-> IF v = w THEN workers[w] ELSE WorkerIdle]

\* The response of a handler that is done, from its own request and the
\* answers to its own calls only.
OwnAnswer(L) ==
    LET r == L.req
        rejected ==
            IF r.route = "redesign" THEN redesign_validate(r)
            ELSE IF r.route = "refine" THEN refine_validate(r)
            ELSE search_validate(r)
    IN  IF ~IsNone(rejected) THEN Get(rejected)
        ELSE IF r.route = "search"
        THEN IF L.search_calls = <<>> THEN Error(500, "Failed to search furniture")
             ELSE after_search(L.search_calls[1].outcome)
        ELSE IF r.route = "refine"
        THEN IF L.calls = <<>> THEN Unhandled ELSE after_refine(L.calls[1].outcome)
        ELSE IF ~empty_then_generate(r) THEN after_design_step(r, None, L.calls[1].outcome)
        ELSE IF Len(L.calls) = 1 THEN after_empty_step(L.calls[1].outcome).resp
        ELSE after_design_step(r, L.calls[1].outcome.value, L.calls[2].outcome)

\* The image a handler sent with its n-th call, from its own request and
\* the answers to its own earlier calls only.
OwnInput(L, n) ==
    IF L.req.route = "refine" THEN Get(input_bytes_of(L.req))
    ELSE IF n = 1 THEN L.req.bytes
    ELSE Get(L.calls[1].outcome.value)

\* Each handler depends on its own locals only.
Independent ==
    \A w \in DOMAIN workers :
        /\ workers[w].pc \in {"empty", "design", "refine", "search"} =>
              after_call(workers, w, extensions, searcher)
                  = after_call(Alone(w), w, extensions, searcher)
        /\ \A n \in 1..Len(workers[w].calls) :
              workers[w].calls[n].input = OwnInput(workers[w], n)
        /\ workers[w].pc = "done" => workers[w].resp = OwnAnswer(workers[w])

\* C19: requests are independent and stateless.  For any interleaving of
\* concurrent redesign, refine and search requests, the calls a handler
\* makes and the response it gives depend only on its own request and on
\* the answers to its own calls, whatever the other handlers are doing; and
\* no step of a handler changes the configuration, the service handles
\* stored at startup, the searcher's tables or its warm-up time.
C19_RequestsIndependent ==
    /\ []Independent
    /\ [][UNCHANGED <<config, startup, extensions, searcher, last_warm>>]_vars

\* Two two-step redesigns run at the same time and both succeed, the
\* emptied room of one differing from the emptied room of the other.
C19_Witness ==
    \E w, v \in DOMAIN workers :
        /\ w # v
        /\ workers[w].pc = "done" /\ workers[v].pc = "done"
        /\ workers[w].req.route = "redesign" /\ workers[v].req.route = "redesign"
        /\ Len(workers[w].calls) = 2 /\ Len(workers[v].calls) = 2
        /\ workers[w].resp.status = 200 /\ workers[v].resp.status = 200
        /\ workers[w].calls[1].outcome.value # workers[v].calls[1].outcome.value

\* The MIME type the claim names for a byte string, by its signature.
MimeBySignature(b) ==
    IF Len(b) >= 2 /\ b[1] = 255 /\ b[2] = 216 THEN "image/jpeg"
    ELSE IF Len(b) >= 2 /\ b[1] = 137 /\ b[2] = 80 THEN "image/png"
    ELSE IF Len(b) >= 2 /\ b[1] = 82 /\ b[2] = 73 THEN "image/webp"
    ELSE IF Len(b) >= 2 /\ b[1] = 71 /\ b[2] = 73 THEN "image/gif"
    ELSE "image/png"

\* C21: detect_image_mime_type never raises; it returns image/jpeg,
\* image/png, image/webp or image/gif for bytes of that format, and the
\* fallback image/png for None, for empty bytes and for bytes that are not
\* an image; the function the routes use gives the same answer.
C21_DetectMimeType ==
    pc = "detected"
    => /\ ~resp.body.detected.raised
       /\ resp.body.detected.value = MimeBySignature(req.bytes)
       /\ resp.body.detected.value = detect_image_mime_type(req.bytes)

\* Bytes that are no image were given and the fallback came back.
C21_Witness ==
    /\ pc = "detected"
    /\ req.bytes = <<73, 71, 0>>
    /\ resp.body.detected = Return("image/png")

\* Two requests carry the same bytes and the same form fields.
SameButDeclared(r, q) ==
    [r EXCEPT !.filename = <<>>, !.content_type = ""]
        = [q EXCEPT !.filename = <<>>, !.content_type = ""]

\* The answers a handler got from the generative model so far.
AnswersOf(L) == [n \in 1..Len(L.calls) |-> L.calls[n].outcome]

\* C22: the image format is taken from the bytes, never from what the
\* client declares.  Two /api/redesign requests with the same bytes and
\* form fields and any non-empty filenames and declared content types,
\* whose calls got the same answers, are at the same point: both accepted
\* or both rejected with the same response, the same images with the same
\* MIME types sent to the generative model, the same data URIs returned.
C22_FormatFromBytesOnly ==
    \A w, v \in DOMAIN workers :
        (/\ workers[w].req.route = "redesign" /\ workers[v].req.route = "redesign"
         /\ SameButDeclared(workers[w].req, workers[v].req)
         /\ AnswersOf(workers[w]) = AnswersOf(workers[v]))
        => /\ workers[w].pc = workers[v].pc
           /\ workers[w].resp = workers[v].resp
           /\ workers[w].calls = workers[v].calls
           /\ \A n \in 1..Len(workers[w].calls) :
                 extensions.ai_service = "GeminiService"
                 => workers[w].calls[n].mime
                        = detect_image_mime_type(workers[w].calls[n].input)

\* A PNG declared as room.gif of type image/gif and the same PNG declared as
\* room.png of type image/png were both redesigned, with the same result.
C22_Witness ==
    \E w, v \in DOMAIN workers :
        /\ workers[w].req.bytes = PNG1 /\ workers[v].req.bytes = PNG1
        /\ workers[w].req.filename = <<"room.gif">>
        /\ workers[w].req.content_type = "image/gif"
        /\ workers[v].req.filename = <<"room.png">>
        /\ workers[v].req.content_type = "image/png"
        /\ workers[w].pc = "done" /\ workers[v].pc = "done"
        /\ workers[w].resp.status = 200
        /\ workers[w].resp = workers[v].resp
        /\ workers[w].calls[1].mime = "image/png"

\* The endpoint answered a JSON object that has the key 'embedding'.
HasEmbeddingKey(e) == e.kind = "json" /\ e.is_dict /\ e.has_key

\* C23 (as claimed): get_image_embedding raises ValueError without sending
\* a request when no URL is configured; lets a transport error through;
\* raises ValueError when the payload is no object with an 'embedding' key
\* or when its value, after unwrapping at most one single-element nesting,
\* is not a list of exactly 512 entries; and otherwise returns the values.
C23_EmbeddingOutcomes ==
    \A i \in 1..Len(search_calls) :
        LET c == search_calls[i]
            e == c.emb
        IN  IF ~config.LAMBDA_CLIP_URL THEN c.outcome = Raise("ValueError") /\ c.posts = 0
            ELSE IF e.kind # "json" THEN c.outcome = Raise("RequestException")
            ELSE IF ~HasEmbeddingKey(e) THEN c.outcome = Raise("ValueError")
            ELSE IF e.shape \notin {"list", "nested"} \/ e.length # EMBEDDING_DIM
                 THEN c.outcome = Raise("ValueError")
            ELSE c.outcome = Return(e.vec)

\* C23 (amended): as claimed, but for two cases.  The client of
\* lambda_search_service.py also takes the list out of an object that holds
\* it under 'embedding', and returns it when it has 512 entries.  And a list
\* of 512 entries that float() cannot convert raises the error of the
\* conversion: ValueError for a string that spells no number, TypeError for
\* a null.
C23_EmbeddingOutcomesByModule ==
    \A i \in 1..Len(search_calls) :
        LET c == search_calls[i]
            e == c.emb
            lists == IF c.module = "lambda_search_service"
                     THEN {"list", "nested", "dict"} ELSE {"list", "nested"}
        IN  IF ~config.LAMBDA_CLIP_URL THEN c.outcome = Raise("ValueError") /\ c.posts = 0
            ELSE IF e.kind # "json" THEN c.outcome = Raise("RequestException")
            ELSE IF ~HasEmbeddingKey(e) THEN c.outcome = Raise("ValueError")
            ELSE IF e.shape \notin lists \/ e.length # EMBEDDING_DIM
                 THEN c.outcome = Raise("ValueError")
            ELSE IF e.entries = "text" THEN c.outcome = Raise("ValueError")
            ELSE IF e.entries = "null" THEN c.outcome = Raise("TypeError")
            ELSE c.outcome = Return(e.vec)

\* The client of lambda_search_service.py got {'embedding': {'embedding':
\* [512 numbers]}} and returned the numbers.
C23_Witness ==
    /\ pc = "embedded"
    /\ search_calls[1].module = "lambda_search_service"
    /\ search_calls[1].emb.shape = "dict"
    /\ search_calls[1].emb.length = EMBEDDING_DIM
    /\ search_calls[1].posts = 1
    /\ search_calls[1].outcome = Return(<<3, 4>>)

\* The spellings of 'true', '1' and 'yes' in any mix of cases, among the
\* values of the form field.
TruthySpellings ==
    {<<"true">>, <<"True">>, <<"TRUE">>, <<"1">>, <<"yes">>, <<"Yes">>, <<"YES">>}

\* The request asks for the two-step workflow.
FlagSet == ~IsNone(req.empty_then_generate) /\ Get(req.empty_then_generate) \in TruthySpellings

\* The handler is in the two-step workflow: it is about to empty the room,
\* or its first call was made with the empty-room prompt.
TwoStepRuns ==
    IF calls = <<>> THEN pc = "empty" ELSE calls[1].prompt = get_empty_room_prompt

\* C24: an accepted /api/redesign request runs the two-step workflow if and
\* only if its empty_then_generate field is 'true', '1' or 'yes' in any mix
\* of cases; with the field absent, empty, or of any other value ('false',
\* 'on', ' true') it runs the single-step workflow, whose one call is made
\* with the design prompt.
C24_FlagSelectsWorkflow ==
    (req.route = "redesign" /\ IsNone(redesign_validate(req)))
    => /\ TwoStepRuns <=> FlagSet
       /\ (~FlagSet /\ calls # <<>>)
          => Len(calls) = 1 /\ calls[1].prompt = design_prompt_of(req)

\* 'TRUE' started the two-step workflow.
C24_Witness ==
    /\ req.route = "redesign"
    /\ req.empty_then_generate = Some(<<"TRUE">>)
    /\ Len(calls) = 2
    /\ calls[1].prompt = get_empty_room_prompt
    /\ resp.status = 200

\* The hit at row i of the embeddings table maps to a catalog record: its
\* clean_id can be looked up and a record of that id exists.
Mapped(i) ==
    /\ Get(searcher.df_embeddings)[i].clean_id \notin UnhashableIds
    /\ \E j \in 1..Len(searcher.product_lookup) :
          searcher.product_lookup[j].clean_id = Get(searcher.df_embeddings)[i].clean_id

\* The catalog record of the hit at row i.
RecordOf(i) ==
    searcher.product_lookup[CHOOSE j \in 1..Len(searcher.product_lookup) :
        searcher.product_lookup[j].clean_id = Get(searcher.df_embeddings)[i].clean_id]

\* C25: an error while mapping one hit skips that hit only.  When the
\* embedding step succeeds, search returns exactly the hits among the top_k
\* nearest that map to a catalog record, in rank order, each with its score
\* and its record's fields and with search_query the title, a space and the
\* source.
C25_FailedHitSkipped ==
    \A n \in 1..Len(search_calls) :
        LET c == search_calls[n]
            emb == get_image_embedding(Get(searcher.clip_service), c.emb)
            scores == similarity_scores(Get(searcher.dataset_embeddings), emb.value)
            kept == SelectSeq(top_indices(scores, c.top_k), LAMBDA i : Mapped(i))
        IN  ~emb.raised
            => /\ ~c.outcome.raised
               /\ Len(c.outcome.value) = Len(kept)
               /\ \A m \in 1..Len(kept) :
                     /\ c.outcome.value[m].score = scores[kept[m]]
                     /\ c.outcome.value[m].title = RecordOf(kept[m]).title
                     /\ c.outcome.value[m].price = RecordOf(kept[m]).price
                     /\ c.outcome.value[m].source = RecordOf(kept[m]).source
                     /\ c.outcome.value[m].image_url = RecordOf(kept[m]).image_url
                     /\ c.outcome.value[m].search_query
                            = RecordOf(kept[m]).title \o <<" ">> \o RecordOf(kept[m]).source

\* The nearest hit could not be looked up and the second has no record: the
\* search went on and returned the third and the fourth.
C25_Witness ==
    /\ pc = "searched"
    /\ searcher.df_embeddings = Some(CatalogC.pkl)
    /\ search_calls[1].top_k = TOP_K
    /\ search_calls[1].emb.vec = <<3, 4>>
    /\ Len(search_calls[1].outcome.value) = 2
    /\ search_calls[1].outcome.value[1].search_query = <<"Lamp", " ", "jysk">>
    /\ search_calls[1].outcome.value[2].search_query = <<"Sofa", " ", "ikea">>

\* C26: an exception raised in the redesign workflow - by the one call of
\* the single-step mode, or by the first or the second call of the
\* empty-then-generate mode - ends the request with HTTP 500 and the body
\* {'error': 'Failed to design room'}, which holds no image; no call follows
\* the one that raised.
C26_ExceptionFailsDesign ==
    \A n \in 1..Len(calls) :
        (req.route = "redesign" /\ calls[n].outcome.raised)
        => /\ n = Len(calls)
           /\ pc = "done"
           /\ resp.status = 500
           /\ resp.body = [error |-> "Failed to design room"]

\* Step 1 of the empty-then-generate mode raised.
C26_Witness ==
    /\ req.route = "redesign" /\ empty_then_generate(req)
    /\ pc = "done"
    /\ Len(calls) = 1
    /\ calls[1].prompt = get_empty_room_prompt
    /\ calls[1].outcome = RaiseMsg("Exception", "API Error: key AIza-1 rejected")
    /\ resp = Error(500, "Failed to design room")

\* The crop box values of the request are numbers, and the width and the
\* height are positive (routes.py lines 172-180).
PassesCropValidation ==
    /\ req.route = "search" /\ req.has_file /\ req.filename # <<>>
    /\ ~float_or_zero(req.box_x).raised /\ ~float_or_zero(req.box_y).raised
    /\ ~float_required(req.box_width).raised /\ ~float_required(req.box_height).raised
    /\ req.box_width.tenths > 0 /\ req.box_height.tenths > 0

\* C27 (as claimed): for every search request that passes the crop
\* validation, with a width and a height that may be fractions, the integer
\* region (int(x), int(y), int(x+w), int(y+h)) the image is cropped to has
\* right > left and bottom > top.
C27_CropRegionHasArea ==
    (PassesCropValidation /\ IsNone(search_validate(req)) /\ PILFormat(req.bytes) # ""
        /\ pc \in {"search", "done"})
    => /\ crop_region(req)[3] > crop_region(req)[1]
       /\ crop_region(req)[4] > crop_region(req)[2]

\* u is a data URI, not null, that encodes the bytes b and declares the
\* MIME type detect_image_mime_type yields for them.
UriOf(u, b) ==
    /\ ~IsNone(u)
    /\ b # EMPTY
    /\ b64decode(Get(u).b64) = Return(b)
    /\ Get(u).mime = detect_image_mime_type(b)

\* C28: every 200 response of /api/redesign holds three data URIs, none of
\* them null - original_image, empty_image and final_image - and every 200
\* response of /api/refine one, refined_image; each encodes the bytes it
\* stands for (the upload, the emptied room or again the upload, the output
\* of the last call) and declares the MIME type detected from those bytes.
C28_DataUrisMatchBytes ==
    (pc = "done" /\ resp.status = 200 /\ req.route \in {"redesign", "refine"})
    => IF req.route = "refine"
       THEN /\ DOMAIN resp.body = {"refined_image"}
            /\ UriOf(resp.body.refined_image, Get(calls[Len(calls)].outcome.value))
       ELSE /\ DOMAIN resp.body = {"original_image", "empty_image", "final_image"}
            /\ UriOf(resp.body.original_image, req.bytes)
            /\ UriOf(resp.body.empty_image,
                     IF Len(calls) = 2 THEN Get(calls[1].outcome.value) ELSE req.bytes)
            /\ UriOf(resp.body.final_image, Get(calls[Len(calls)].outcome.value))

\* A PNG upload was redesigned in two steps; the model answered a PNG, then
\* a JPEG, and the response declares image/png, image/png and image/jpeg.
C28_Witness ==
    /\ pc = "done" /\ resp.status = 200 /\ req.route = "redesign"
    /\ req.bytes = PNG1
    /\ Len(calls) = 2
    /\ calls[1].outcome.value = Some(PNG2)
    /\ calls[2].outcome.value = Some(JPEG2)
    /\ Get(resp.body.original_image).mime = "image/png"
    /\ Get(resp.body.empty_image).mime = "image/png"
    /\ Get(resp.body.final_image).mime = "image/jpeg"

\* Every table of the searcher and its embedding client are in place.
FullyLoaded ==
    /\ ~IsNone(searcher.df_data)
    /\ ~IsNone(searcher.df_embeddings)
    /\ ~IsNone(searcher.dataset_embeddings)
    /\ ~IsNone(searcher.clip_service)
    /\ searcher.product_lookup = config.catalog.csv
    /\ Len(Get(searcher.dataset_embeddings)) = Len(Get(searcher.df_embeddings))

\* C29: LambdaFurnitureSearcher.__init__ returns whatever the loading steps
\* run into, and what it leaves is all or nothing: df_data is set only
\* together with df_embeddings, dataset_embeddings, product_lookup and
\* clip_service, and is None after any failure or missing file; so search
\* gets to the embedding step only on a fully loaded searcher, and raises
\* RuntimeError otherwise.
C29_InitAllOrNothing ==
    pc \in {"fixture", "searched"}
    => /\ ~IsNone(searcher.df_data) => FullyLoaded
       /\ load_outcome(config) # Return("loaded") => IsNone(searcher.df_data)
       /\ load_outcome(config) = Return("loaded") => FullyLoaded
       /\ \A n \in 1..Len(search_calls) :
             IF FullyLoaded
             THEN search_calls[n].emb \in EmbBehaviours /\ ~search_calls[n].outcome.raised
             ELSE /\ search_calls[n].emb = NoEmb /\ search_calls[n].posts = 0
                  /\ search_calls[n].outcome = Raise("RuntimeError")

\* The CSV loaded and the pickle did not: the lookup table is left, df_data
\* is None again, and search raised without asking for an embedding.
C29_Witness ==
    /\ pc = "searched"
    /\ config.catalog_files = "pkl_unreadable"
    /\ searcher.product_lookup = CatalogB.csv
    /\ IsNone(searcher.df_data) /\ IsNone(searcher.clip_service)
    /\ search_calls[1].outcome = Raise("RuntimeError")
    /\ search_calls[1].posts = 0

\* The step is a call of warm_async: the log has one more entry.
WarmAsyncCalled == Len(warm_log') = Len(warm_log) + 1

\* The step is the end of a warm thread: a pending ping has its result.
WarmPingFinished ==
    \E i \in 1..Len(warm_log) :
        warm_log[i].ping = "pending" /\ warm_log'[i].ping \in {"ok", "failed"}

\* C30: _last_warm is written by the warm thread only, when its ping
\* finishes, and then to the current time whether the ping succeeded or
\* failed.  A call of warm_async leaves it as it is, whether it schedules a
\* ping or skips it; and a non-forced call made less than _warm_interval
\* after the end of a ping - failed or not - is skipped: it returns False
\* and starts no thread.
C30_LastWarmWrittenByThread ==
    [][/\ WarmAsyncCalled => last_warm' = last_warm
       /\ WarmPingFinished => last_warm' = now
       /\ last_warm' # last_warm => WarmPingFinished
       /\ (WarmAsyncCalled /\ ~warm_log'[Len(warm_log')].force
              /\ now - last_warm < warm_interval)
          => /\ ~warm_log'[Len(warm_log')].returned
             /\ warm_threads' = warm_threads]_vars

\* The one ping so far failed, and the non-forced call made half an interval
\* after its end was skipped.
C30_Witness ==
    /\ Len(warm_log) = 2
    /\ warm_log[1].ping = "failed"
    /\ last_warm = warm_interval
    /\ ~warm_log[2].force /\ ~warm_log[2].returned
    /\ warm_log[2].time = warm_interval + (warm_interval \div 2)
    /\ warm_threads = {}

====
